---- MODULE Spec2Model ----
(***************************************************************************)
(* Lobby, mode consensus, tick driver and post-game sequence of the        *)
(* unified arena server (server/network/network_manager.py), with the      *)
(* parts of the Survival and KOTH game managers the network layer reads.   *)
(*                                                                         *)
(* Everything runs on one asyncio event loop: a step of the model is the   *)
(* code one coroutine executes between two awaits.  A coroutine's position *)
(* (hpc for a session handler, tasks[t].pc for a tick-driver task) names   *)
(* the await it is suspended in.                                           *)
(***************************************************************************)
EXTENDS Integers, Sequences, FiniteSets, TLC

\* ------------------------------------------------------------------ bounds
MaxSessions == 2      \* websocket connections over the server's life
MaxManagers == 2      \* game manager instances constructed
MaxTasks == 2         \* tick-driver tasks created
MaxTicks == 2         \* manager.update calls per game manager instance
MaxRequired == 2      \* largest configured required_clients
MaxAgents == 3        \* agents in the table of a simulated match
MaxUpdates == 3       \* GameManager.update calls of a simulated match
LowHealth == 10       \* the lowest health an agent is constructed with
\* program constants scaled down.  Time is counted in simulation ticks (sim_dt):
\* 0.8 s, 1.5 s and 10 s are 24, 45 and 300 ticks in the program.
DEFAULT_SHOOT_DURATION == 2    \* load_bullet to the shot
DEFAULT_RELOAD_DURATION == 4   \* start_reload to the refill
BULLET_LIFETIME == 3           \* Bullet(lifetime=10.0)
MAX_BULLET_ID == 3             \* 65535 in the program: the ids wrap sooner
\* Lengths are whole pixels; the program's world is 1280 x 720 with cells of 5,
\* agents of radius 20 and a speed of 80 pixels per second.
GRID_UNIT == 2
LOGICAL_SCREEN_WIDTH == 7
LOGICAL_SCREEN_HEIGHT == 5
DEFAULT_ENTITY_RADIUS == 1
DEFAULT_AGENT_SPEED == 1       \* pixels per tick
\* CTF (common/ctf_config.py): bases at x = 100 and 1180, radii of 30 and 150,
\* 30 s to the auto-return, 1 capture or 300 s to the end in the program.
CTF_FLAG_TEAM_A_BASE_X == 0
CTF_FLAG_TEAM_B_BASE_X == 3
CTF_FLAG_PICKUP_RADIUS == 0
CTF_FLAG_RETURN_RADIUS == 1
CTF_FLAG_AUTO_RETURN_TIME == 2
CTF_MAX_CAPTURES == 2
CTF_MAX_DURATION == 5
\* KOTH (common/koth_config.py): a zone of radius 100, 1000 points or 180 s to
\* the end in the program.
KOTH_ZONE_RADIUS == 1
KOTH_MAX_POINTS == 10
KothHalfSeconds == 2   \* KOTH_MAX_DURATION in half seconds
KothTicks == 47
\* detection (common/config.py): an FOV radius of 40 entity radii and 26 rays
\* over a cone of a sixth of a turn in the program; the opening here is in
\* eighths of a turn.
FOV_RATIO == 4
FOV_OPENING == 2
FOV_NUM_RAYS == 2
\* walls: the changes a buffer holds and the columns read of a line of a
\* wall file.
MaxChanges == 3
MaxCols == 4
MaxTracked == 1

\* ------------------------------------------------------- program constants
REQUIRED_CLIENTS_TO_START == 1
SIMULATION_TICK_RATE == 30
NETWORK_UPDATE_RATE == 15
NEUTRAL == 0
TEAM_A == 1
TEAM_B == 2
AMMO_INFINITE == 65535
DEFAULT_AGENT_HEALTH == 100
DEFAULT_AGENT_DAMAGE == 25
DEFAULT_MAGAZINE_SIZE == 8
DETECTION_INTERVAL == 2
NO_SHOOT == -1
CTF_POINTS_PER_CAPTURE == 1
KOTH_POINTS_PER_SECOND == 10
RAY_STEP_DIVISOR == 2
MAX_WALL_CHANGES == 65535
WALL_CHANGE_PACKED_SIZE == 5
CTF_FLAG_DROPS_ON_DEATH == TRUE
sim_dt == 1                    \* 1.0 / SIMULATION_TICK_RATE s, in ticks

Teams == {NEUTRAL, TEAM_A, TEAM_B}
GAME_MODE_SURVIVAL == "SURVIVAL"
GAME_MODE_KOTH == "KOTH"
GAME_MODE_CTF == "CTF"
\* the mode byte a client may put in SELECT_MODE
Modes == {GAME_MODE_SURVIVAL, GAME_MODE_KOTH, GAME_MODE_CTF}

\* Python's None: for a mode, for an optional team (a sequence of length <= 1)
\* and for the task reference.
NoMode == "None"
None == << >>
Some(v) == << v >>
NoTask == 0

Sessions == 1..MaxSessions

VARIABLES
    required_clients,  \* self.required_clients
    clients,           \* self.clients: dict ws -> {ready, mode}, in insertion order
    game_manager,      \* self.game_manager (the instance and its fields)
    game_mode,         \* self.game_mode
    game_task,         \* self.game_task
    tasks,             \* every task made by asyncio.create_task(self._game_loop())
    managersCreated,   \* number of game manager instances constructed so far
    sock,              \* per websocket: "none" (not yet connected), "open", "slow"
                       \* (open, its peer does not read: a send to it does not
                       \* complete), "closed"
    hpc,               \* per websocket: where its handle_client coroutine is
    sent,              \* per websocket: the message the last step sent to it, if any
    agents,            \* GameManager.agents: dict id -> Agent
    bullets,           \* GameManager.bullets: dict id -> Bullet
    next_id,           \* Bullet._next_id, the class-level id counter
    raised,            \* the last GameManager.update call left by an exception
    walls_state,       \* the server's StateWalls (cells and change_buffer)
    peer_walls,        \* the StateWalls of a peer that receives the packed changes
    unpacked           \* what the peer's last unpack_changes returned, if it was called

\* the simulation state of game_manager (its agent and bullet tables)
wallVars == << walls_state, peer_walls, unpacked >>
gameVars == << agents, bullets, next_id, raised, walls_state, peer_walls, unpacked >>

vars == << required_clients, clients, game_manager, game_mode, game_task, tasks,
           managersCreated, sock, hpc, sent, agents, bullets, next_id, raised,
           walls_state, peer_walls, unpacked >>

\* ----------------------------------------------------------- game managers
\* self.game_manager = None
NoManager ==
    [ id |-> 0, kind |-> "None", is_running |-> FALSE, tick_count |-> 0,
      winner_team |-> None, koth_state |-> [game_over |-> FALSE, winner_team |-> NEUTRAL],
      teams |-> {}, spawns |-> 0 ]

\* GameManager(wall_config_file): Survival
GameManager(id) ==
    [ id |-> id, kind |-> "Survival", is_running |-> FALSE, tick_count |-> 0,
      winner_team |-> None, koth_state |-> [game_over |-> FALSE, winner_team |-> NEUTRAL],
      teams |-> {}, spawns |-> 0 ]

\* GameManagerKOTH(wall_config_file): it has koth_state and no winner_team attribute
GameManagerKOTH(id) ==
    [ id |-> id, kind |-> "KOTH", is_running |-> FALSE, tick_count |-> 0,
      winner_team |-> None, koth_state |-> [game_over |-> FALSE, winner_team |-> NEUTRAL],
      teams |-> {}, spawns |-> 0 ]

\* spawn_test_agents: agents of both spawn tables are added to the agent table
\* (teams: the teams that have an agent in the table)
spawn_test_agents(gm) ==
    [gm EXCEPT !.teams = gm.teams \cup {TEAM_A, TEAM_B}, !.spawns = gm.spawns + 1]

\* GameManager.update: bullets and agents act, dead agents are purged (survivors:
\* the teams still in the agent table), then the win check and the tick counter
GameManagerUpdate(gm, survivors) ==
    LET remaining_teams == survivors
        won == Cardinality(remaining_teams) = 1
    IN [gm EXCEPT !.teams = survivors,
                  !.winner_team = IF won THEN Some(CHOOSE w \in remaining_teams : TRUE)
                                  ELSE gm.winner_team,
                  !.is_running = IF won THEN FALSE ELSE gm.is_running,
                  !.tick_count = gm.tick_count + 1]

\* GameManagerKOTH.update: the same physics (the agent table plays no part in
\* its win check), then zone control, scoring and check_win_condition (won: its
\* return value, None while the match goes on)
GameManagerKOTHUpdate(gm, won) ==
    LET decided == ~gm.koth_state.game_over /\ won # None
    IN [gm EXCEPT !.koth_state = IF decided
                                 THEN [game_over |-> TRUE, winner_team |-> won[1]]
                                 ELSE gm.koth_state,
                  !.is_running = IF decided THEN FALSE ELSE gm.is_running,
                  !.tick_count = gm.tick_count + 1]

\* getattr(self.game_manager, "winner_team", None)
getattr_winner_team(gm) ==
    IF gm.kind = "Survival" THEN gm.winner_team ELSE None

\* the winner byte of GAME_END computed in _game_loop's finally block
GameEndWinner(gm) ==
    IF gm # NoManager /\ getattr_winner_team(gm) # None
    THEN getattr_winner_team(gm)[1]
    ELSE 0

\* ------------------------------------------------------------ session table
ClientSet == { clients[i].ws : i \in 1..Len(clients) }
IndexOf(s) == CHOOSE i \in 1..Len(clients) : clients[i].ws = s
ClientOf(s) == clients[IndexOf(s)]
RemoveClient(cl, s) == SelectSeq(cl, LAMBDA c : c.ws # s)

\* a websocket that is connected: send() on it does not raise
Open(s) == sock[s] \in {"open", "slow"}

\* a gather that lets the first exception through: when a send raises, the
\* pass is abandoned with nothing delivered
send_to_all_abort(msg) ==
    [s \in Sessions |->
        IF s \in ClientSet /\ Open(s) /\ \A r \in ClientSet : Open(r)
        THEN Some(msg) ELSE None]

\* asyncio.gather(*(client.send(msg) for client in self.clients)): the message
\* reaches the websockets of the table that are open
send_to_all(msg) ==
    [s \in Sessions |-> IF s \in ClientSet /\ Open(s) THEN Some(msg) ELSE None]

\* asyncio.gather returns when every send has returned or raised: a send to a
\* websocket whose peer does not read does neither
Blocked == \E s \in ClientSet : sock[s] = "slow"

\* some coroutine is suspended in a _send_to_all
SendInFlight ==
    \/ \E s \in Sessions : hpc[s] \in {"mode_send", "start_send"}
    \/ \E t \in 1..Len(tasks) :
          tasks[t].pc \in {"bcast_entities", "bcast_bullets", "bcast_koth", "end_send"}

\* a step that sends nothing
Silent == [s \in Sessions |-> None]

\* _check_can_start
check_can_start(cl) ==
    LET modes == { cl[i].mode : i \in 1..Len(cl) }
    IN /\ Len(cl) >= required_clients
       /\ \A i \in 1..Len(cl) : cl[i].ready
       /\ NoMode \notin modes
       /\ Cardinality(modes) = 1

\* a task that has not finished
Live(t) == tasks[t].pc # "done"
\* a task that is executing between two awaits: nothing else runs meanwhile
Running == \E t \in 1..Len(tasks) : tasks[t].pc = "loop"

\* StateWalls(grid_unit, world_width, world_height)
StateWalls == [cells |-> {}, change_buffer |-> << >>]

\* no wall anywhere, no peer
NoWalls ==
    /\ walls_state = StateWalls
    /\ peer_walls = StateWalls
    /\ unpacked = None

\* the agent and bullet tables are left out of the lobby and pump models, which
\* read the manager through teams, tick_count, is_running and the winner only
NoSimulation ==
    /\ agents = << >>
    /\ bullets = << >>
    /\ next_id = 0
    /\ raised = FALSE
    /\ NoWalls

TypeOK ==
    /\ required_clients \in 1..MaxRequired
    /\ game_task \in 0..Len(tasks)
    /\ \A s \in Sessions : sock[s] \in {"none", "open", "slow", "closed"}
    /\ \A s \in Sessions : hpc[s] \in {"none", "recv", "mode_send", "start_send", "done"}
    /\ game_mode \in Modes \cup {NoMode}

Init ==
    /\ required_clients \in REQUIRED_CLIENTS_TO_START..MaxRequired
    /\ clients = << >>
    /\ game_manager = NoManager
    /\ game_mode = NoMode
    /\ game_task = NoTask
    /\ tasks = << >>
    /\ managersCreated = 0
    /\ sock = [s \in Sessions |-> "none"]
    /\ hpc = [s \in Sessions |-> "none"]
    /\ sent = Silent
    /\ NoSimulation

\* handle_client up to its first await: the websocket is registered
Connect(s) ==
    /\ ~Running
    /\ sock[s] = "none"
    /\ \A r \in Sessions : r < s => sock[r] # "none"
    /\ sock' = [sock EXCEPT ![s] = "open"]
    /\ hpc' = [hpc EXCEPT ![s] = "recv"]
    /\ clients' = Append(clients, [ws |-> s, ready |-> FALSE, mode |-> NoMode])
    /\ sent' = Silent
    /\ UNCHANGED << required_clients, game_manager, game_mode, game_task, tasks,
                    managersCreated >>

\* selections compared with the unset ones included: agreement then needs
\* every session to have selected
modes_selected_all(cl) == { cl[i].mode : i \in 1..Len(cl) }

\* the non-None selections of the table (modes_selected, as a set)
modes_selected(cl) == { cl[i].mode : i \in 1..Len(cl) } \ {NoMode}

\* a selection handler that constructs the Survival manager for every mode
ManagerAlwaysSurvival(agreed_mode, id) == GameManager(id)

\* the manager _handle_mode_selection constructs for an agreed mode
ManagerFor(agreed_mode, id) ==
    IF agreed_mode = GAME_MODE_KOTH THEN GameManagerKOTH(id) ELSE GameManager(id)

\* whether _handle_mode_selection notifies the clients of the agreed mode: the
\* send is inside the branch that installs
NotifiesModeSelected(installs) == installs

\* Task.cancel(): a request the task meets at the await it is suspended in
cancel(tk, t) ==
    IF t = NoTask \/ tk[t].pc = "done" THEN tk ELSE [tk EXCEPT ![t].cancelled = TRUE]

\* game_manager.is_running = False (when a manager is installed)
StopManager(gm) == IF gm = NoManager THEN gm ELSE [gm EXCEPT !.is_running = FALSE]

\* the finally block of handle_client
HandlerFinally(s) ==
    LET cl == RemoveClient(clients, s)
        stop == Len(cl) < required_clients
    IN /\ clients' = cl
       /\ tasks' = IF stop THEN cancel(tasks, game_task) ELSE tasks
       /\ game_task' = IF stop THEN NoTask ELSE game_task
       /\ game_manager' = IF stop THEN StopManager(game_manager) ELSE game_manager
       /\ hpc' = [hpc EXCEPT ![s] = "done"]
       /\ sock' = [sock EXCEPT ![s] = "closed"]
       /\ sent' = Silent
       /\ UNCHANGED << required_clients, game_mode, managersCreated >>

\* SELECT_MODE(mode) received: _handle_mode_selection up to its await.  When
\* the table was cleared under the handler, self.clients[ws] raises KeyError,
\* which leaves the receive loop through the finally block.
RecvSelectMode(s, mode) ==
    /\ ~Running
    /\ Open(s) /\ hpc[s] = "recv"
    /\ IF s \notin ClientSet
       THEN HandlerFinally(s)
       ELSE LET cl == [clients EXCEPT ![IndexOf(s)].mode = mode]
                agreed == Cardinality(modes_selected(cl)) = 1
                agreed_mode == CHOOSE m \in modes_selected(cl) : TRUE
                installs == agreed /\ game_mode # agreed_mode
            IN /\ installs => managersCreated < MaxManagers
               /\ clients' = cl
               /\ game_mode' = IF installs THEN agreed_mode ELSE game_mode
               /\ game_manager' = IF installs
                                  THEN ManagerFor(agreed_mode, managersCreated + 1)
                                  ELSE game_manager
               /\ managersCreated' = IF installs THEN managersCreated + 1
                                     ELSE managersCreated
               /\ IF agreed /\ NotifiesModeSelected(installs)
                  THEN /\ sent' = send_to_all([type |-> "MODE_SELECTED",
                                               mode |-> agreed_mode])
                       /\ hpc' = [hpc EXCEPT ![s] = "mode_send"]
                  ELSE /\ sent' = Silent
                       /\ UNCHANGED hpc
               /\ UNCHANGED << required_clients, game_task, tasks, sock >>

\* the MODE_SELECTED broadcast completes: back to websocket.receive()
ResumeModeSend(s) ==
    /\ ~Running /\ ~Blocked
    /\ hpc[s] = "mode_send"
    /\ hpc' = [hpc EXCEPT ![s] = "recv"]
    /\ sent' = Silent
    /\ UNCHANGED << required_clients, clients, game_manager, game_mode, game_task,
                    tasks, managersCreated, sock >>

\* whether the CLIENT_READY branch starts a match
StartsGame(cl) ==
    check_can_start(cl) /\ game_task = NoTask /\ game_manager # NoManager

\* CLIENT_READY received: up to the await of the START_GAME broadcast
RecvClientReady(s) ==
    /\ ~Running
    /\ Open(s) /\ hpc[s] = "recv"
    /\ IF s \notin ClientSet
       THEN HandlerFinally(s)
       ELSE LET cl == [clients EXCEPT ![IndexOf(s)].ready = TRUE]
            IN /\ StartsGame(cl) => Len(tasks) < MaxTasks
               /\ clients' = cl
               /\ IF StartsGame(cl)
                  THEN /\ sent' = send_to_all([type |-> "START_GAME"])
                       /\ hpc' = [hpc EXCEPT ![s] = "start_send"]
                  ELSE /\ sent' = Silent
                       /\ UNCHANGED hpc
               /\ UNCHANGED << required_clients, game_manager, game_mode, game_task,
                               tasks, managersCreated, sock >>

\* a new task of _game_loop, not yet run (entities_bytes: the local of
\* _broadcast that holds the entities packet of the pass under way)
NewTask ==
    [ pc |-> "created", cancelled |-> FALSE, time_since_broadcast |-> 0,
      clients_snapshot |-> << >>, entities_bytes |-> None ]

\* a task that returned or was cancelled
DoneTask ==
    [ pc |-> "done", cancelled |-> FALSE, time_since_broadcast |-> 0,
      clients_snapshot |-> << >>, entities_bytes |-> None ]

\* the START_GAME broadcast completes: asyncio.create_task(self._game_loop())
ResumeStartSend(s) ==
    /\ ~Running /\ ~Blocked
    /\ hpc[s] = "start_send"
    /\ tasks' = Append(tasks, NewTask)
    /\ game_task' = Len(tasks) + 1
    /\ hpc' = [hpc EXCEPT ![s] = "recv"]
    /\ sent' = Silent
    /\ UNCHANGED << required_clients, clients, game_manager, game_mode,
                    managersCreated, sock >>

\* the client closes its websocket: the handler is cancelled at the await it
\* is suspended in and runs its finally block
ClientClose(s) ==
    /\ ~Running
    /\ Open(s)
    /\ hpc[s] \in {"recv", "mode_send", "start_send"}
    /\ HandlerFinally(s)

\* the connection of a client is lost and its handler has not been resumed
\* yet: until Teardown, the websocket is still in the table and a send to it
\* raises
PeerLost(s) ==
    /\ ~Running
    /\ Open(s)
    /\ hpc[s] \in {"recv", "mode_send", "start_send"}
    /\ sock' = [sock EXCEPT ![s] = "closed"]
    /\ sent' = Silent
    /\ UNCHANGED << required_clients, clients, game_manager, game_mode, game_task,
                    tasks, managersCreated, hpc >>

\* the client stops reading its websocket while no send is under way: the
\* sends to it that start from now on do not complete
GoSlow(s) ==
    /\ ~Running /\ ~SendInFlight
    /\ s \in ClientSet /\ sock[s] = "open"
    /\ sock' = [sock EXCEPT ![s] = "slow"]
    /\ sent' = Silent
    /\ UNCHANGED << required_clients, clients, game_manager, game_mode, game_task,
                    tasks, managersCreated, hpc >>

\* the handler of a closed websocket is cancelled at the await it is
\* suspended in and runs its finally block
Teardown(s) ==
    /\ ~Running
    /\ sock[s] = "closed"
    /\ hpc[s] \in {"recv", "mode_send", "start_send"}
    /\ HandlerFinally(s)

\* ticks between two broadcast passes: time_since_broadcast, counted in sim_dt,
\* reaches broadcast_interval
BroadcastEvery == SIMULATION_TICK_RATE \div NETWORK_UPDATE_RATE

\* one snapshot packet of _broadcast: the state it encodes is named by the
\* manager instance and the tick it was read at
Packet(type, gm) == [type |-> type, gm |-> gm.id, tick |-> gm.tick_count]

\* _game_loop from its start to the while loop
TaskStart(t) ==
    /\ ~Running
    /\ tasks[t].pc = "created"
    /\ IF tasks[t].cancelled \/ game_manager = NoManager
       THEN /\ tasks' = [tasks EXCEPT ![t] = DoneTask]
            /\ UNCHANGED game_manager
       ELSE /\ game_manager' =
                   spawn_test_agents([game_manager EXCEPT !.is_running = TRUE])
            /\ tasks' = [tasks EXCEPT ![t].pc = "loop", ![t].time_since_broadcast = 0]
    /\ sent' = Silent
    /\ UNCHANGED << required_clients, clients, game_mode, game_task, managersCreated,
                    sock, hpc >>

\* a finally block that skips the GAME_END broadcast and goes to the grace delay
ExitLoopSilent(t, gm) ==
    /\ game_manager' = gm
    /\ sent' = Silent
    /\ tasks' = [tasks EXCEPT ![t].pc = "grace",
                              ![t].cancelled = FALSE,
                              ![t].time_since_broadcast = 0,
                              ![t].entities_bytes = None]
    /\ UNCHANGED << required_clients, clients, game_mode, game_task, managersCreated,
                    sock, hpc >>

\* the finally block of _game_loop up to its first await: GAME_END(winner) is
\* broadcast, then (no client: at once) the grace delay
ExitLoop(t, gm) ==
    /\ game_manager' = gm
    /\ sent' = send_to_all([type |-> "GAME_END", winner |-> GameEndWinner(gm)])
    /\ tasks' = [tasks EXCEPT ![t].pc = IF clients # << >> THEN "end_send" ELSE "grace",
                              ![t].cancelled = FALSE,
                              ![t].time_since_broadcast = 0,
                              ![t].entities_bytes = None]
    /\ UNCHANGED << required_clients, clients, game_mode, game_task, managersCreated,
                    sock, hpc >>

\* except asyncio.CancelledError in the loop, then the finally block
CancelledInLoop(t) == ExitLoop(t, StopManager(game_manager))

\* manager.update(sim_dt) of the installed manager
update(gm, survivors, won) ==
    IF gm.kind = "KOTH" THEN GameManagerKOTHUpdate(gm, won)
    ELSE GameManagerUpdate(gm, survivors)

\* the loop condition of _game_loop
LoopCondition == game_manager.is_running /\ Len(clients) >= required_clients

\* one evaluation of the while condition and one pass of the loop body
TaskLoop(t) ==
    /\ tasks[t].pc = "loop"
    /\ IF LoopCondition
       THEN \/ /\ game_manager.tick_count < MaxTicks          \* current_time >= next_tick
               /\ \E survivors \in SUBSET game_manager.teams,
                     won \in {None} \cup { Some(w) : w \in Teams } :
                    LET gm == update(game_manager, survivors, won)
                        since == tasks[t].time_since_broadcast + 1
                    IN /\ game_manager.kind = "Survival" => won = None
                       /\ game_manager.kind = "KOTH" => survivors = game_manager.teams
                       /\ game_manager' = gm
                       /\ IF since >= BroadcastEvery
                          THEN /\ sent' = send_to_all(Packet("ENTITIES", gm))
                               /\ tasks' = [tasks EXCEPT ![t].pc = "bcast_entities",
                                                         ![t].time_since_broadcast = since,
                                                         ![t].entities_bytes =
                                                             Some(Packet("ENTITIES", gm))]
                          ELSE /\ sent' = Silent
                               /\ tasks' = [tasks EXCEPT ![t].time_since_broadcast = since]
               /\ UNCHANGED << required_clients, clients, game_mode, game_task,
                               managersCreated, sock, hpc >>
            \/ /\ tasks' = [tasks EXCEPT ![t].pc = "sleep"]   \* await asyncio.sleep
               /\ sent' = Silent
               /\ UNCHANGED << required_clients, clients, game_manager, game_mode,
                               game_task, managersCreated, sock, hpc >>
       ELSE ExitLoop(t, game_manager)

\* asyncio.sleep of the loop returns, or raises CancelledError
ResumeSleep(t) ==
    /\ ~Running
    /\ tasks[t].pc = "sleep"
    /\ IF tasks[t].cancelled
       THEN CancelledInLoop(t)
       ELSE /\ tasks' = [tasks EXCEPT ![t].pc = "loop"]
            /\ sent' = Silent
            /\ UNCHANGED << required_clients, clients, game_manager, game_mode,
                            game_task, managersCreated, sock, hpc >>

\* whether _broadcast sends the KOTH packet
SendsKothState == game_mode = GAME_MODE_KOTH /\ game_manager.kind = "KOTH"

\* _broadcast resumes after one of its sends: the next packet is read from
\* self.game_manager as it is now
ResumeBroadcast(t) ==
    /\ ~Running
    /\ tasks[t].cancelled \/ ~Blocked
    /\ tasks[t].pc \in {"bcast_entities", "bcast_bullets", "bcast_koth"}
    /\ IF tasks[t].cancelled
       THEN CancelledInLoop(t)
       ELSE /\ IF tasks[t].pc = "bcast_entities" /\ clients # << >>
               THEN /\ sent' = send_to_all(Packet("BULLETS", game_manager))
                    /\ tasks' = [tasks EXCEPT ![t].pc = "bcast_bullets"]
               ELSE IF tasks[t].pc # "bcast_koth" /\ SendsKothState /\ clients # << >>
               THEN /\ sent' = send_to_all(Packet("KOTH_STATE", game_manager))
                    /\ tasks' = [tasks EXCEPT ![t].pc = "bcast_koth"]
               ELSE /\ sent' = Silent
                    /\ tasks' = [tasks EXCEPT ![t].pc = "loop",
                                              ![t].time_since_broadcast = 0,
                                              ![t].entities_bytes = None]
            /\ UNCHANGED << required_clients, clients, game_manager, game_mode,
                            game_task, managersCreated, sock, hpc >>

\* a CancelledError met in the finally block is no Exception: it ends the task
TaskCancelled(t) ==
    /\ tasks' = [tasks EXCEPT ![t] = DoneTask]
    /\ sent' = Silent
    /\ UNCHANGED << required_clients, clients, game_manager, game_mode, game_task,
                    managersCreated, sock, hpc >>

\* the GAME_END broadcast completes: await asyncio.sleep(disconnect_delay)
ResumeEndSend(t) ==
    /\ ~Running
    /\ tasks[t].cancelled \/ ~Blocked
    /\ tasks[t].pc = "end_send"
    /\ IF tasks[t].cancelled
       THEN TaskCancelled(t)
       ELSE /\ tasks' = [tasks EXCEPT ![t].pc = "grace"]
            /\ sent' = Silent
            /\ UNCHANGED << required_clients, clients, game_manager, game_mode,
                            game_task, managersCreated, sock, hpc >>

\* the close loop over clients_snapshot: close the next websocket, or, at the
\* end of the list, self.clients.clear()
CloseNext(t, snapshot) ==
    /\ IF snapshot = << >>
       THEN /\ clients' = << >>
            /\ tasks' = [tasks EXCEPT ![t] = DoneTask]
            /\ UNCHANGED sock
       ELSE /\ sock' = [sock EXCEPT ![Head(snapshot)] = "closed"]
            /\ tasks' = [tasks EXCEPT ![t].pc = "closing",
                                      ![t].clients_snapshot = Tail(snapshot)]
            /\ UNCHANGED clients
    /\ sent' = Silent
    /\ UNCHANGED << required_clients, game_manager, game_mode, game_task,
                    managersCreated, hpc >>

\* the grace delay is over: clients_snapshot = list(self.clients.keys())
ResumeGrace(t) ==
    /\ ~Running
    /\ tasks[t].pc = "grace"
    /\ IF tasks[t].cancelled
       THEN TaskCancelled(t)
       ELSE CloseNext(t, [i \in 1..Len(clients) |-> clients[i].ws])

\* await c.close() returns
ResumeClosing(t) ==
    /\ ~Running
    /\ tasks[t].pc = "closing"
    /\ IF tasks[t].cancelled
       THEN TaskCancelled(t)
       ELSE CloseNext(t, tasks[t].clients_snapshot)

Next ==
    \/ \E s \in Sessions : Connect(s) /\ UNCHANGED gameVars
    \/ \E s \in Sessions, m \in Modes : RecvSelectMode(s, m) /\ UNCHANGED gameVars
    \/ \E s \in Sessions : ResumeModeSend(s) /\ UNCHANGED gameVars
    \/ \E s \in Sessions : RecvClientReady(s) /\ UNCHANGED gameVars
    \/ \E s \in Sessions : ResumeStartSend(s) /\ UNCHANGED gameVars
    \/ \E s \in Sessions : ClientClose(s) /\ UNCHANGED gameVars
    \/ \E s \in Sessions : Teardown(s) /\ UNCHANGED gameVars
    \/ \E t \in 1..Len(tasks) : TaskStart(t) /\ UNCHANGED gameVars
    \/ \E t \in 1..Len(tasks) : TaskLoop(t) /\ UNCHANGED gameVars
    \/ \E t \in 1..Len(tasks) : ResumeSleep(t) /\ UNCHANGED gameVars
    \/ \E t \in 1..Len(tasks) : ResumeBroadcast(t) /\ UNCHANGED gameVars
    \/ \E t \in 1..Len(tasks) : ResumeEndSend(t) /\ UNCHANGED gameVars
    \/ \E t \in 1..Len(tasks) : ResumeGrace(t) /\ UNCHANGED gameVars
    \/ \E t \in 1..Len(tasks) : ResumeClosing(t) /\ UNCHANGED gameVars

Spec == Init /\ [][Next]_vars

\* ----------------------------------------------------- a match under way
\* The broadcast pump seen from the launch of a match: n sessions have agreed
\* on a mode, all are ready, START_GAME was broadcast and the driver created.
Launched(n, mode) ==
    /\ clients = [i \in 1..n |-> [ws |-> i, ready |-> TRUE, mode |-> mode]]
    /\ game_manager = ManagerFor(mode, 1)
    /\ game_mode = mode
    /\ game_task = 1
    /\ tasks = << NewTask >>
    /\ managersCreated = 1
    /\ sock = [s \in Sessions |-> IF s <= n THEN "open" ELSE "none"]
    /\ hpc = [s \in Sessions |-> IF s <= n THEN "recv" ELSE "none"]
    /\ sent = Silent
    /\ NoSimulation

InitPump ==
    /\ required_clients \in REQUIRED_CLIENTS_TO_START..MaxRequired
    /\ \E n \in required_clients..MaxSessions :
       \E mode \in {GAME_MODE_SURVIVAL, GAME_MODE_KOTH} : Launched(n, mode)

\* during the match the clients lose their connection, stop reading or send
\* SELECT_MODE; the handlers and the driver run as in Next
NextPump ==
    \/ \E s \in Sessions : PeerLost(s) /\ UNCHANGED gameVars
    \/ \E s \in Sessions : GoSlow(s) /\ UNCHANGED gameVars
    \/ \E s \in Sessions : Teardown(s) /\ UNCHANGED gameVars
    \/ \E s \in Sessions, m \in Modes : RecvSelectMode(s, m) /\ UNCHANGED gameVars
    \/ \E s \in Sessions : ResumeModeSend(s) /\ UNCHANGED gameVars
    \/ \E t \in 1..Len(tasks) : TaskStart(t) /\ UNCHANGED gameVars
    \/ \E t \in 1..Len(tasks) : TaskLoop(t) /\ UNCHANGED gameVars
    \/ \E t \in 1..Len(tasks) : ResumeSleep(t) /\ UNCHANGED gameVars
    \/ \E t \in 1..Len(tasks) : ResumeBroadcast(t) /\ UNCHANGED gameVars
    \/ \E t \in 1..Len(tasks) : ResumeEndSend(t) /\ UNCHANGED gameVars
    \/ \E t \in 1..Len(tasks) : ResumeGrace(t) /\ UNCHANGED gameVars
    \/ \E t \in 1..Len(tasks) : ResumeClosing(t) /\ UNCHANGED gameVars

SpecPump == InitPump /\ [][NextPump]_vars

\* ------------------------------------------------------------------ agents
\* server/gameplay/agent.py.  Positions, angles and walls are left out; what
\* depends on them (which circles overlap, who is seen) is an input.
Max(a, b) == IF a >= b THEN a ELSE b

\* Agent(team=, health=, ammo=): ammo None means infinite; a finite ammo above
\* the magazine size is clamped to it, nothing is done about one below zero.
\* x and y default to 0; the match and weapon models never read a position.
Agent(team, health, ammo) ==
    LET ammo_val == IF ammo = None THEN AMMO_INFINITE ELSE ammo[1]
    IN [ team |-> team,
         health |-> health,
         damage |-> DEFAULT_AGENT_DAMAGE,
         magazine_size |-> DEFAULT_MAGAZINE_SIZE,
         reload_duration |-> DEFAULT_RELOAD_DURATION,
         current_ammo |-> IF ammo_val # AMMO_INFINITE /\ ammo_val > DEFAULT_MAGAZINE_SIZE
                          THEN DEFAULT_MAGAZINE_SIZE
                          ELSE ammo_val,
         reload_timer |-> None,
         shoot_timer |-> NO_SHOOT,
         detected_enemies |-> {},
         x |-> 0,
         y |-> 0,
         radius |-> DEFAULT_ENTITY_RADIUS,
         speed |-> DEFAULT_AGENT_SPEED,
         blocked |-> None ]

\* d[k] = v on a dict
Put(d, k, v) == [x \in DOMAIN d \cup {k} |-> IF x = k THEN v ELSE d[x]]

\* del d[k] for every k of ks
Del(d, ks) == [x \in DOMAIN d \ ks |-> d[x]]

\* a start_reload that does not look at the ammo
start_reload_any(a) ==
    IF a.reload_timer # None
    THEN a
    ELSE [a EXCEPT !.reload_timer = Some(a.reload_duration)]

\* Agent.start_reload
start_reload(a) ==
    IF a.reload_timer # None \/ a.current_ammo = AMMO_INFINITE
    THEN a
    ELSE [a EXCEPT !.reload_timer = Some(a.reload_duration)]

\* a load_bullet that starts the countdown anew whenever there is ammo
load_bullet_restart(a) ==
    IF a.reload_timer # None THEN a
    ELSE IF a.current_ammo = AMMO_INFINITE \/ a.current_ammo > 0
    THEN [a EXCEPT !.shoot_timer = DEFAULT_SHOOT_DURATION]
    ELSE start_reload(a)

\* Agent.load_bullet
load_bullet(a) ==
    IF a.reload_timer # None THEN a
    ELSE IF a.current_ammo = AMMO_INFINITE \/ a.current_ammo > 0
    THEN IF a.shoot_timer = NO_SHOOT
         THEN [a EXCEPT !.shoot_timer = DEFAULT_SHOOT_DURATION]
         ELSE a
    ELSE start_reload(a)

\* Bullet(owner_id=, team=, damage=) and Bullet.get_next_id: the world w is the
\* record of the agent table, the bullet table and the id counter
AddBullet(w, b) ==
    [w EXCEPT !.bullets = Put(w.bullets, w.next_id, b),
              !.next_id = (w.next_id + 1) % (MAX_BULLET_ID + 1)]

\* Agent._fire_bullet of agent id
fire_bullet(w, id) ==
    LET a == w.agents[id]
    IN IF a.current_ammo # AMMO_INFINITE /\ a.current_ammo <= 0
       THEN [w EXCEPT !.agents[id] = [start_reload(a) EXCEPT !.shoot_timer = NO_SHOOT]]
       ELSE LET b == [owner_id |-> id, team |-> a.team, damage |-> a.damage, age |-> 0]
                a1 == IF a.current_ammo # AMMO_INFINITE
                      THEN LET left == Max(0, a.current_ammo - 1)
                               spent == [a EXCEPT !.current_ammo = left]
                           IN IF left = 0 THEN start_reload(spent) ELSE spent
                      ELSE a
                w1 == AddBullet(w, b)
            IN [w1 EXCEPT !.agents[id] = [a1 EXCEPT !.shoot_timer = NO_SHOOT]]

\* Agent._update_tick_before_strategy: the weapon cooldown, then the reload timer
update_tick_before_strategy(w, id, dt) ==
    LET a == w.agents[id]
        w1 == IF a.shoot_timer >= 0
              THEN LET cooled == [w EXCEPT !.agents[id].shoot_timer = a.shoot_timer - dt]
                   IN IF a.shoot_timer - dt <= 0 THEN fire_bullet(cooled, id) ELSE cooled
              ELSE w
        a1 == w1.agents[id]
    IN IF a1.reload_timer # None
       THEN IF a1.reload_timer[1] - dt <= 0
            THEN [w1 EXCEPT !.agents[id] =
                     [a1 EXCEPT !.current_ammo = IF a1.current_ammo # AMMO_INFINITE
                                                 THEN a1.magazine_size
                                                 ELSE a1.current_ammo,
                                !.reload_timer = None]]
            ELSE [w1 EXCEPT !.agents[id].reload_timer = Some(a1.reload_timer[1] - dt)]
       ELSE w1

\* what strategy.execute(agent, dt) does with the weapon of its agent
StrategyCalls == {"none", "load_bullet", "start_reload"}

\* strategy.execute making the call
execute(a, call) ==
    IF call = "load_bullet" THEN load_bullet(a)
    ELSE IF call = "start_reload" THEN start_reload(a)
    ELSE a

\* Agent.update_strategy(dt), the strategy returning normally
update_strategy(w, id, dt, call) ==
    LET w1 == update_tick_before_strategy(w, id, dt)
    IN [w1 EXCEPT !.agents[id] = execute(w1.agents[id], call)]

\* Agent.take_damage
take_damage(a, amount) == [a EXCEPT !.health = Max(0, a.health - amount)]

\* Agent.is_alive
is_alive(a) == a.health > 0

World == [agents |-> agents, bullets |-> bullets, next_id |-> next_id]

\* the ammo argument of the constructor
AmmoArgs ==
    {None, Some(AMMO_INFINITE)} \cup { Some(n) : n \in (-1)..(DEFAULT_MAGAZINE_SIZE + 1) }

\* the tick lengths update_strategy is called with: the driver's sim_dt and a
\* longer one
Dts == {sim_dt, 2 * sim_dt}

\* one agent on its own: constructed with some ammo argument, then
\* update_strategy is called tick after tick with a strategy of any behaviour
InitAgent ==
    /\ required_clients = REQUIRED_CLIENTS_TO_START
    /\ clients = << >>
    /\ game_manager = NoManager
    /\ game_mode = NoMode
    /\ game_task = NoTask
    /\ tasks = << >>
    /\ managersCreated = 0
    /\ sock = [s \in Sessions |-> "none"]
    /\ hpc = [s \in Sessions |-> "none"]
    /\ sent = Silent
    /\ \E ammo \in AmmoArgs : agents = [i \in {1} |-> Agent(TEAM_A, DEFAULT_AGENT_HEALTH, ammo)]
    /\ bullets = << >>
    /\ next_id = 0
    /\ raised = FALSE
    /\ NoWalls

lobbyVars == << required_clients, clients, game_manager, game_mode, game_task, tasks,
                managersCreated, sock, hpc, sent >>

AgentTick(id, dt, call) ==
    LET w == update_strategy(World, id, dt, call)
    IN /\ agents' = w.agents
       /\ bullets' = w.bullets
       /\ next_id' = w.next_id
       /\ UNCHANGED << raised, lobbyVars, wallVars >>

NextAgent ==
    \E id \in DOMAIN agents, dt \in Dts, call \in StrategyCalls : AgentTick(id, dt, call)

SpecAgent == InitAgent /\ [][NextAgent]_vars

\* ------------------------------------------------------- the simulation tick
\* server/gameplay/game_manager.py and collision.py
Min(S) == CHOOSE x \in S : \A y \in S : x <= y

\* for agent in self.agents.values(): agent.update_strategy(dt), in the order of
\* the table; an exception raised by a strategy leaves the loop and update
RECURSIVE update_agents(_, _, _, _)
update_agents(w, ids, dt, calls) ==
    IF ids = {} THEN [w |-> w, raised |-> FALSE]
    ELSE LET id == Min(ids)
         IN IF calls[id] = "raise"
            THEN [w |-> update_tick_before_strategy(w, id, dt), raised |-> TRUE]
            ELSE update_agents(update_strategy(w, id, dt, calls[id]), ids \ {id}, dt, calls)

\* Agent.detect_enemies: the agents of another team that are in the table and
\* that a ray reaches (seen)
detect_enemies(ags, id, seen) ==
    [ags[id] EXCEPT !.detected_enemies =
        { e \in seen[id] \cap DOMAIN ags : e # id /\ ags[e].team # ags[id].team }]

\* a collision pass that skips the owner only
find_collisions_owner_only(bullets_dict, agents_dict, overlap) ==
    [b \in DOMAIN bullets_dict |->
        { a \in DOMAIN agents_dict :
            /\ a # bullets_dict[b].owner_id
            /\ a \in overlap[b] }]

\* find_bullet_agent_collisions: per bullet the agents it hits (overlap: the
\* agents whose circle the bullet's circle overlaps)
find_bullet_agent_collisions(bullets_dict, agents_dict, overlap) ==
    [b \in DOMAIN bullets_dict |->
        { a \in DOMAIN agents_dict :
            /\ a # bullets_dict[b].owner_id
            /\ agents_dict[a].team # bullets_dict[b].team
            /\ a \in overlap[b] }]

\* for bullet_id, hit_agents in bullet_hits.items(): every hit agent takes the
\* bullet's damage
RECURSIVE apply_hits(_, _, _, _)
apply_hits(ags, bids, bullets_dict, bullet_hits) ==
    IF bids = {} THEN ags
    ELSE LET b == Min(bids)
             hurt == [a \in DOMAIN ags |->
                         IF a \in bullet_hits[b]
                         THEN take_damage(ags[a], bullets_dict[b].damage)
                         ELSE ags[a]]
         IN apply_hits(hurt, bids \ {b}, bullets_dict, bullet_hits)

\* a purge that deletes the dead agents and leaves the detection sets alone
purge_keep_refs(ags) ==
    LET dead_agents == { a \in DOMAIN ags : ~is_alive(ags[a]) }
    IN [a \in DOMAIN ags \ dead_agents |-> ags[a]]

\* the dead agents are taken out of every detection set and out of the table
purge(ags) ==
    LET dead_agents == { a \in DOMAIN ags : ~is_alive(ags[a]) }
    IN [a \in DOMAIN ags \ dead_agents |->
           [ags[a] EXCEPT !.detected_enemies = @ \ dead_agents]]

\* the teams of the agents of a table
TeamsOf(ags) == { ags[a].team : a \in DOMAIN ags }

\* for bullet in bullets: bullet.update(dt), then the expired ones are deleted
update_bullets(bullets_dict, dt) ==
    LET moved == [b \in DOMAIN bullets_dict |->
                     [bullets_dict[b] EXCEPT !.age = @ + dt]]
        expired_bullets == { b \in DOMAIN moved : ~(moved[b].age < BULLET_LIFETIME) }
    IN Del(moved, expired_bullets)

\* a tick that destroys the bullets lying over a wall cell before it looks for
\* the agents they hit
AfterAgentsWallsFirst(gm, r, seen, overlap, destroyed) ==
    LET w1 == r.w
        ags1 == IF gm.tick_count % DETECTION_INTERVAL = 0
                THEN [id \in DOMAIN w1.agents |-> detect_enemies(w1.agents, id, seen)]
                ELSE w1.agents
        flying == Del(w1.bullets, destroyed)
        bullet_hits == find_bullet_agent_collisions(flying, ags1, overlap)
        ags2 == apply_hits(ags1, DOMAIN flying, flying, bullet_hits)
        spent == { b \in DOMAIN flying : bullet_hits[b] # {} }
        ags3 == purge(ags2)
    IN [ w |-> [agents |-> ags3,
                bullets |-> Del(flying, spent),
                next_id |-> w1.next_id],
         gm |-> GameManagerUpdate(gm, TeamsOf(ags3)),
         raised |-> FALSE ]

\* GameManager.update(dt) from the detection pass on, r being the state the
\* agents' updates left: detection, bullet-agent collisions, bullet-wall
\* collisions (destroyed), the purge, the win check and the tick counter
AfterAgents(gm, r, seen, overlap, destroyed) ==
    LET w1 == r.w
        ags1 == IF gm.tick_count % DETECTION_INTERVAL = 0
                THEN [id \in DOMAIN w1.agents |-> detect_enemies(w1.agents, id, seen)]
                ELSE w1.agents
        bullet_hits == find_bullet_agent_collisions(w1.bullets, ags1, overlap)
        ags2 == apply_hits(ags1, DOMAIN w1.bullets, w1.bullets, bullet_hits)
        spent == { b \in DOMAIN w1.bullets : bullet_hits[b] # {} }
        ags3 == purge(ags2)
    IN [ w |-> [agents |-> ags3,
                bullets |-> Del(w1.bullets, spent \cup destroyed),
                next_id |-> w1.next_id],
         gm |-> GameManagerUpdate(gm, TeamsOf(ags3)),
         raised |-> FALSE ]

\* the ways a bullet's circle lies over the agents' circles: over none or over
\* all of them
Overlaps(ags) == {{}, DOMAIN ags}

\* what a strategy does in a match: it returns (having called load_bullet or
\* not) or it raises; the agents of a match have infinite ammo, for which
\* start_reload does nothing
MatchOutcomes == {"none", "load_bullet", "raise"}

\* one call of GameManager.update(sim_dt) by the tick driver
GameUpdate ==
    /\ ~raised
    /\ game_manager.is_running
    /\ game_manager.tick_count < MaxUpdates
    /\ \E calls \in [DOMAIN agents -> MatchOutcomes] :
        LET r == update_agents([World EXCEPT !.bullets = update_bullets(bullets, sim_dt)],
                               DOMAIN agents, sim_dt, calls)
        IN IF r.raised
           THEN /\ agents' = r.w.agents
                /\ bullets' = r.w.bullets
                /\ next_id' = r.w.next_id
                /\ raised' = TRUE
                /\ UNCHANGED << lobbyVars, wallVars >>
           ELSE \E visible \in {{}, DOMAIN agents},
                   overlap \in [DOMAIN r.w.bullets -> Overlaps(agents)],
                   destroyed \in {{}, DOMAIN r.w.bullets} :
                 LET seen == [a \in DOMAIN agents |-> visible]
                     u == AfterAgents(game_manager, r, seen, overlap, destroyed)
                 IN /\ agents' = u.w.agents
                    /\ bullets' = u.w.bullets
                    /\ next_id' = u.w.next_id
                    /\ game_manager' = u.gm
                    /\ raised' = FALSE
                    /\ UNCHANGED << required_clients, clients, game_mode, game_task,
                                    tasks, managersCreated, sock, hpc, sent,
                                    wallVars >>

\* the health argument of the constructor: one or two hits from death
HealthArgs == {LowHealth, LowHealth + DEFAULT_AGENT_DAMAGE}

\* a Survival match as the driver has started it: a manager with agents of both
\* teams in its table (team A's first, as spawn_test_agents adds them), each
\* with infinite ammo
InitGame ==
    /\ required_clients = REQUIRED_CLIENTS_TO_START
    /\ clients = << [ws |-> 1, ready |-> TRUE, mode |-> GAME_MODE_SURVIVAL] >>
    /\ game_manager = spawn_test_agents([GameManager(1) EXCEPT !.is_running = TRUE])
    /\ game_mode = GAME_MODE_SURVIVAL
    /\ game_task = 1
    /\ tasks = << [NewTask EXCEPT !.pc = "loop"] >>
    /\ managersCreated = 1
    /\ sock = [s \in Sessions |-> IF s = 1 THEN "open" ELSE "none"]
    /\ hpc = [s \in Sessions |-> IF s = 1 THEN "recv" ELSE "none"]
    /\ sent = Silent
    /\ \E nA \in 1..(MaxAgents - 1), health \in [1..MaxAgents -> HealthArgs] :
         agents = [i \in 1..MaxAgents |->
                      Agent(IF i <= nA THEN TEAM_A ELSE TEAM_B, health[i], None)]
    /\ bullets = << >>
    /\ next_id = 0
    /\ raised = FALSE
    /\ NoWalls

NextGame == GameUpdate

SpecGame == InitGame /\ [][NextGame]_vars

\* ---------------------------------------------------------------- movement
\* Agent.move and server/gameplay/collision.py on whole-pixel positions
\* StateWalls.to_cell
to_cell(px, py) == << px \div GRID_UNIT, py \div GRID_UNIT >>

\* StateWalls.has_wall
has_wall(ws, cx, cy) == << cx, cy >> \in ws.cells

\* StateWalls.has_wall_at_pos
has_wall_at_pos(ws, px, py) == to_cell(px, py) \in ws.cells

\* _circle_hits_wall: a wall cell within the cells of the circle's bounding box
circle_hits_wall(x, y, radius, ws) ==
    LET lo == to_cell(x - radius, y - radius)
        hi == to_cell(x + radius, y + radius)
    IN \E cx \in lo[1]..hi[1], cy \in lo[2]..hi[2] : has_wall(ws, cx, cy)

\* _circles_overlap
circles_overlap(x1, y1, r1, x2, y2, r2) ==
    (x1 - x2) * (x1 - x2) + (y1 - y2) * (y1 - y2) < (r1 + r2) * (r1 + r2)

\* a validity check that tests the cell of the circle's centre only for a wall
check_move_validity_centre(x, y, radius, agents_dict, ws, exclude_id) ==
    LET hit == { a \in DOMAIN agents_dict \ {exclude_id} :
                    circles_overlap(x, y, radius, agents_dict[a].x, agents_dict[a].y,
                                    agents_dict[a].radius) }
    IN IF has_wall_at_pos(ws, x, y)
       THEN [collision_type |-> "WALL", obstacle_id |-> None]
       ELSE IF hit # {}
       THEN [collision_type |-> "AGENT", obstacle_id |-> Some(Min(hit))]
       ELSE [collision_type |-> "NONE", obstacle_id |-> None]

\* check_move_validity: walls first, then the agents in the order of the table
check_move_validity(x, y, radius, agents_dict, ws, exclude_id) ==
    LET hit == { a \in DOMAIN agents_dict \ {exclude_id} :
                    circles_overlap(x, y, radius, agents_dict[a].x, agents_dict[a].y,
                                    agents_dict[a].radius) }
    IN IF circle_hits_wall(x, y, radius, ws)
       THEN [collision_type |-> "WALL", obstacle_id |-> None]
       ELSE IF hit # {}
       THEN [collision_type |-> "AGENT", obstacle_id |-> Some(Min(hit))]
       ELSE [collision_type |-> "NONE", obstacle_id |-> None]

\* DIRECTION_VECTORS, the components of the diagonals (0.707) rounded to whole
\* pixels
DIRECTION_VECTORS ==
    [ NORTH |-> << 0, 1 >>, NORTH_EAST |-> << 1, 1 >>, EAST |-> << 1, 0 >>,
      SOUTH_EAST |-> << 1, -1 >>, SOUTH |-> << 0, -1 >>, SOUTH_WEST |-> << -1, -1 >>,
      WEST |-> << -1, 0 >>, NORTH_WEST |-> << -1, 1 >> ]

Direction == DOMAIN DIRECTION_VECTORS

\* the position move(dt, direction) tries to reach
MoveTarget(a, dt, direction) ==
    << a.x + DIRECTION_VECTORS[direction][1] * a.speed * dt,
       a.y + DIRECTION_VECTORS[direction][2] * a.speed * dt >>

\* Agent.move of agent id
move(ags, ws, id, dt, direction) ==
    LET a == ags[id]
        new == MoveTarget(a, dt, direction)
        res == check_move_validity(new[1], new[2], a.radius, ags, ws, id)
    IN IF res.collision_type = "NONE"
       THEN [a EXCEPT !.x = new[1], !.y = new[2], !.blocked = None]
       ELSE [a EXCEPT !.blocked = Some(res)]

\* StateWalls.is_valid_cell
is_valid_cell(cx, cy) ==
    /\ 0 <= cx /\ cx < LOGICAL_SCREEN_WIDTH \div GRID_UNIT
    /\ 0 <= cy /\ cy < LOGICAL_SCREEN_HEIGHT \div GRID_UNIT

\* the cells of the grid
Cells == { c \in (0..LOGICAL_SCREEN_WIDTH) \X (0..LOGICAL_SCREEN_HEIGHT) :
             is_valid_cell(c[1], c[2]) }

\* the wall maps of the movement model: these cells, each a wall or not
WallMaps == SUBSET { << 1, 0 >>, << 2, 1 >> }

\* the whole-pixel positions of the world
Pixels == (0..LOGICAL_SCREEN_WIDTH) \X (0..LOGICAL_SCREEN_HEIGHT)

\* the idle lobby of the models that have no server
NoLobby ==
    /\ required_clients = REQUIRED_CLIENTS_TO_START
    /\ clients = << >>
    /\ game_manager = NoManager
    /\ game_mode = NoMode
    /\ game_task = NoTask
    /\ tasks = << >>
    /\ managersCreated = 0
    /\ sock = [s \in Sessions |-> "none"]
    /\ hpc = [s \in Sessions |-> "none"]
    /\ sent = Silent

\* Agent(x=, y=, team=)
AgentAt(p, team) ==
    [Agent(team, DEFAULT_AGENT_HEALTH, None) EXCEPT !.x = p[1], !.y = p[2]]

\* two agents constructed at free positions of a walled world, then moved
InitMove ==
    /\ NoLobby
    /\ \E cells \in WallMaps :
         walls_state = [StateWalls EXCEPT !.cells = cells]
    /\ \E p1 \in Pixels, p2 \in Pixels :
         /\ ~circle_hits_wall(p1[1], p1[2], DEFAULT_ENTITY_RADIUS, walls_state)
         /\ ~circle_hits_wall(p2[1], p2[2], DEFAULT_ENTITY_RADIUS, walls_state)
         /\ ~circles_overlap(p1[1], p1[2], DEFAULT_ENTITY_RADIUS,
                             p2[1], p2[2], DEFAULT_ENTITY_RADIUS)
         /\ agents = [i \in {1, 2} |-> AgentAt(IF i = 1 THEN p1 ELSE p2,
                                                IF i = 1 THEN TEAM_A ELSE TEAM_B)]
    /\ bullets = << >>
    /\ next_id = 0
    /\ raised = FALSE
    /\ peer_walls = StateWalls
    /\ unpacked = None

\* agent.move(sim_dt, direction), the target inside the world
Move(id, direction) ==
    /\ MoveTarget(agents[id], sim_dt, direction) \in Pixels
    /\ agents' = [agents EXCEPT ![id] = move(agents, walls_state, id, sim_dt, direction)]
    /\ UNCHANGED << bullets, next_id, raised, lobbyVars, wallVars >>

NextMove == \E id \in DOMAIN agents, direction \in Direction : Move(id, direction)

SpecMove == InitMove /\ [][NextMove]_vars

\* ------------------------------------------------------- capture the flag
\* server/gameplay/game_manager_ctf.py.  The agents stand on the line y = 0
\* between the two bases; what their strategies and the bullets do to them in
\* a tick (where each one moves, who dies) is an input of the tick.
AT_BASE == "AT_BASE"
CARRIED == "CARRIED"
DROPPED == "DROPPED"

\* CTFFlag(team, base_x, base_y)
CTFFlag(team, base_x, base_y) ==
    [ team |-> team, base_x |-> base_x, base_y |-> base_y, x |-> base_x, y |-> base_y,
      state |-> AT_BASE, carrier_id |-> None, drop_timer |-> 0 ]

\* CTFFlag.reset_to_base
reset_to_base(flag) ==
    [flag EXCEPT !.x = flag.base_x, !.y = flag.base_y, !.state = AT_BASE,
                 !.carrier_id = None, !.drop_timer = 0]

\* CTFFlag.pickup
pickup(flag, agent_id, agent_x, agent_y) ==
    [flag EXCEPT !.state = CARRIED, !.carrier_id = Some(agent_id),
                 !.x = agent_x, !.y = agent_y, !.drop_timer = 0]

\* CTFFlag.drop
drop(flag, x, y) ==
    [flag EXCEPT !.state = DROPPED, !.carrier_id = None, !.x = x, !.y = y,
                 !.drop_timer = 0]

\* CTFFlag.update_carrier_position
update_carrier_position(flag, x, y) ==
    IF flag.state = CARRIED THEN [flag EXCEPT !.x = x, !.y = y] ELSE flag

\* CTFFlag.update_drop_timer: the flag after it, auto-returned when its time is up
update_drop_timer(flag, dt) ==
    IF flag.state = DROPPED
    THEN LET timed == [flag EXCEPT !.drop_timer = @ + dt]
         IN IF CTF_FLAG_AUTO_RETURN_TIME > 0
               /\ timed.drop_timer >= CTF_FLAG_AUTO_RETURN_TIME
            THEN reset_to_base(timed)
            ELSE timed
    ELSE flag

\* GameManagerCTF(wall_config_file)
GameManagerCTF(id) ==
    [ id |-> id, kind |-> "CTF", is_running |-> FALSE, tick_count |-> 0,
      flag_team_a |-> CTFFlag(TEAM_A, CTF_FLAG_TEAM_A_BASE_X, 0),
      flag_team_b |-> CTFFlag(TEAM_B, CTF_FLAG_TEAM_B_BASE_X, 0),
      team_a_captures |-> 0, team_b_captures |-> 0,
      time_elapsed |-> 0, game_over |-> FALSE, winner_team |-> 0 ]

\* math.sqrt(dx * dx + dy * dy) <= radius
Within(x1, y1, x2, y2, radius) ==
    (x1 - x2) * (x1 - x2) + (y1 - y2) * (y1 - y2) <= radius * radius

\* the flag an agent of the team attacks and the one it defends
EnemyFlagOf(team) == IF team = TEAM_A THEN "flag_team_b" ELSE "flag_team_a"
OwnFlagOf(team) == IF team = TEAM_A THEN "flag_team_a" ELSE "flag_team_b"
CapturesOf(team) == IF team = TEAM_A THEN "team_a_captures" ELSE "team_b_captures"

\* GameManagerCTF._capture_flag
capture_flag(gm, team, flag_name) ==
    [gm EXCEPT ![CapturesOf(team)] = @ + CTF_POINTS_PER_CAPTURE,
               ![flag_name] = reset_to_base(@)]

\* a tracking step that drops the flag of a missing carrier and leaves a
\* carried flag where it was
FollowCarrierStill(flag, ags) ==
    IF flag.state = CARRIED /\ flag.carrier_id # None /\ flag.carrier_id[1] \notin DOMAIN ags
    THEN drop(flag, flag.x, flag.y)
    ELSE flag

\* update_flags, first loop: a carried flag follows its carrier, or is dropped
\* where it is when its carrier is not in the table
FollowCarrier(flag, ags) ==
    IF flag.state = CARRIED /\ flag.carrier_id # None
    THEN IF flag.carrier_id[1] \in DOMAIN ags
         THEN update_carrier_position(flag, ags[flag.carrier_id[1]].x,
                                      ags[flag.carrier_id[1]].y)
         ELSE drop(flag, flag.x, flag.y)
    ELSE flag

\* a turn that captures without looking at the state of the own flag
FlagTurnAnyOwnState(gm, id, a) ==
    LET enemy == EnemyFlagOf(a.team)
        own == OwnFlagOf(a.team)
        own_base_x == IF a.team = TEAM_A THEN CTF_FLAG_TEAM_A_BASE_X
                      ELSE CTF_FLAG_TEAM_B_BASE_X
        g1 == IF gm[enemy].state # CARRIED
                 /\ Within(a.x, a.y, gm[enemy].x, gm[enemy].y, CTF_FLAG_PICKUP_RADIUS)
              THEN [gm EXCEPT ![enemy] = pickup(@, id, a.x, a.y)]
              ELSE gm
        g2 == IF g1[enemy].carrier_id = Some(id)
                 /\ Within(a.x, a.y, own_base_x, 0, CTF_FLAG_RETURN_RADIUS)
              THEN capture_flag(g1, a.team, enemy)
              ELSE g1
    IN IF g2[own].state = DROPPED
          /\ Within(a.x, a.y, g2[own].x, g2[own].y, CTF_FLAG_PICKUP_RADIUS)
       THEN [g2 EXCEPT ![own] = reset_to_base(@)]
       ELSE g2

\* update_flags, the turn of one agent: pickup of the enemy flag, capture,
\* return of the own dropped flag (skipped, like the capture, by the continue
\* of a carrier whose own flag is not at base)
FlagTurn(gm, id, a) ==
    LET enemy == EnemyFlagOf(a.team)
        own == OwnFlagOf(a.team)
        own_base_x == IF a.team = TEAM_A THEN CTF_FLAG_TEAM_A_BASE_X
                      ELSE CTF_FLAG_TEAM_B_BASE_X
        g1 == IF gm[enemy].state # CARRIED
                 /\ Within(a.x, a.y, gm[enemy].x, gm[enemy].y, CTF_FLAG_PICKUP_RADIUS)
              THEN [gm EXCEPT ![enemy] = pickup(@, id, a.x, a.y)]
              ELSE gm
        carrier == g1[enemy].carrier_id = Some(id)
        g2 == IF carrier /\ Within(a.x, a.y, own_base_x, 0, CTF_FLAG_RETURN_RADIUS)
              THEN capture_flag(g1, a.team, enemy)
              ELSE g1
    IN IF carrier /\ g1[own].state # AT_BASE
       THEN g1
       ELSE IF g2[own].state = DROPPED
               /\ Within(a.x, a.y, g2[own].x, g2[own].y, CTF_FLAG_PICKUP_RADIUS)
       THEN [g2 EXCEPT ![own] = reset_to_base(@)]
       ELSE g2

\* update_flags, second loop: the agents take their turns in table order
RECURSIVE FlagTurns(_, _, _)
FlagTurns(gm, ags, ids) ==
    IF ids = {} THEN gm
    ELSE LET id == Min(ids)
         IN FlagTurns(IF is_alive(ags[id]) THEN FlagTurn(gm, id, ags[id]) ELSE gm,
                      ags, ids \ {id})

\* GameManagerCTF.update_flags
update_flags(gm, ags, dt) ==
    LET g1 == [gm EXCEPT !.flag_team_a = FollowCarrier(@, ags),
                         !.flag_team_b = FollowCarrier(@, ags)]
        g2 == FlagTurns(g1, ags, DOMAIN ags)
    IN [g2 EXCEPT !.flag_team_a = update_drop_timer(@, dt),
                  !.flag_team_b = update_drop_timer(@, dt)]

\* a death handler that looks for the dead agent among the carriers of its own
\* team's flag
handle_agent_death_own_flag(gm, agent_id, agent_team, agent_x, agent_y) ==
    LET own == OwnFlagOf(agent_team)
    IN IF CTF_FLAG_DROPS_ON_DEATH /\ gm[own].carrier_id = Some(agent_id)
       THEN [gm EXCEPT ![own] = drop(@, agent_x, agent_y)]
       ELSE gm

\* GameManagerCTF.handle_agent_death
handle_agent_death(gm, agent_id, agent_team, agent_x, agent_y) ==
    LET enemy == EnemyFlagOf(agent_team)
    IN IF CTF_FLAG_DROPS_ON_DEATH /\ gm[enemy].carrier_id = Some(agent_id)
       THEN [gm EXCEPT ![enemy] = drop(@, agent_x, agent_y)]
       ELSE gm

\* for aid in dead_agents: handle_agent_death(...)
RECURSIVE handle_deaths(_, _, _)
handle_deaths(gm, ags, dead) ==
    IF dead = {} THEN gm
    ELSE LET aid == Min(dead)
         IN handle_deaths(handle_agent_death(gm, aid, ags[aid].team, ags[aid].x, ags[aid].y),
                          ags, dead \ {aid})

\* GameManagerCTF.check_win_condition
ctf_check_win_condition(gm) ==
    IF gm.team_a_captures >= CTF_MAX_CAPTURES THEN Some(TEAM_A)
    ELSE IF gm.team_b_captures >= CTF_MAX_CAPTURES THEN Some(TEAM_B)
    ELSE IF CTF_MAX_DURATION > 0 /\ gm.time_elapsed >= CTF_MAX_DURATION
    THEN IF gm.team_a_captures > gm.team_b_captures THEN Some(TEAM_A)
         ELSE IF gm.team_b_captures > gm.team_a_captures THEN Some(TEAM_B)
         ELSE Some(NEUTRAL)
    ELSE None

\* GameManagerCTF.update(dt): ags is the agent table after the strategies and
\* the bullets acted, dead_agents the agents they left without health
GameManagerCTFUpdate(gm, ags, dead_agents, dt) ==
    LET g1 == IF ~gm.game_over THEN [gm EXCEPT !.time_elapsed = @ + dt] ELSE gm
        g2 == handle_deaths(g1, ags, dead_agents)
        left == Del(ags, dead_agents)
        g3 == IF ~g2.game_over THEN update_flags(g2, left, dt) ELSE g2
        winner == ctf_check_win_condition(g3)
        g4 == IF ~g2.game_over /\ winner # None
              THEN [g3 EXCEPT !.game_over = TRUE, !.winner_team = winner[1],
                              !.is_running = FALSE]
              ELSE g3
    IN [g4 EXCEPT !.tick_count = @ + 1]

\* the positions of the line between the bases
Line == 0..CTF_FLAG_TEAM_B_BASE_X

\* a CTF match as the driver has started it: agents of both teams (team A's
\* first) spawned on the line
InitCTF ==
    /\ required_clients = REQUIRED_CLIENTS_TO_START
    /\ clients = << [ws |-> 1, ready |-> TRUE, mode |-> GAME_MODE_CTF] >>
    /\ game_manager = [GameManagerCTF(1) EXCEPT !.is_running = TRUE]
    /\ game_mode = GAME_MODE_CTF
    /\ game_task = 1
    /\ tasks = << [NewTask EXCEPT !.pc = "loop"] >>
    /\ managersCreated = 1
    /\ sock = [s \in Sessions |-> IF s = 1 THEN "open" ELSE "none"]
    /\ hpc = [s \in Sessions |-> IF s = 1 THEN "recv" ELSE "none"]
    /\ sent = Silent
    /\ \E nA \in 1..(MaxAgents - 1), spawn \in [1..MaxAgents -> Line] :
         agents = [i \in 1..MaxAgents |->
                      AgentAt(<< spawn[i], 0 >>, IF i <= nA THEN TEAM_A ELSE TEAM_B)]
    /\ bullets = << >>
    /\ next_id = 0
    /\ raised = FALSE
    /\ NoWalls

\* the agents a tick leaves without health: none, or one of them
Casualties(ags) == {{}} \cup {{a} : a \in DOMAIN ags}

\* one call of GameManagerCTF.update(sim_dt) by the tick driver
CTFUpdate ==
    /\ game_manager.is_running
    /\ \E steps \in [DOMAIN agents -> {-1, 0, 1}], dead_agents \in Casualties(agents) :
         LET ags == [a \in DOMAIN agents |->
                        [agents[a] EXCEPT !.x = @ + steps[a] * agents[a].speed * sim_dt]]
         IN /\ \A a \in DOMAIN ags : ags[a].x \in Line
            /\ game_manager' = GameManagerCTFUpdate(game_manager, ags, dead_agents, sim_dt)
            /\ agents' = Del(ags, dead_agents)
    /\ UNCHANGED << required_clients, clients, game_mode, game_task, tasks,
                    managersCreated, sock, hpc, sent, bullets, next_id, raised,
                    wallVars >>

NextCTF == CTFUpdate

SpecCTF == InitCTF /\ [][NextCTF]_vars

\* ------------------------------------------------------- king of the hill
\* server/gameplay/game_manager_koth.py.  Times are Python floats.  A float
\* is held here as a whole number of Ulps (Unit of them to the second) and
\* every sum is rounded to MANT_DIG significant bits, ties to even, as the
\* hardware rounds it.  Python's floats carry 53 bits; 1/30 is periodic in
\* binary with period 4, so that with 21 = 53 - 32 bits the tick length and
\* its sums round to the same side as they do with 53, and the numbers stay
\* in the range of the model checker's integers.
MANT_DIG == 21

Pow2(n) == 2 ^ n

\* one second: the tick length 1/30 lies in [2^-5, 2^-4)
Unit == Pow2(MANT_DIG + 4)

RECURSIVE BitLength(_)
BitLength(n) == IF n = 0 THEN 0 ELSE 1 + BitLength(n \div 2)

\* the multiple of ulp nearest to n, the even one of two equally near
RoundToEven(n, ulp) ==
    LET q == n \div ulp
        r == n % ulp
    IN IF 2 * r > ulp \/ (2 * r = ulp /\ q % 2 = 1) THEN (q + 1) * ulp ELSE q * ulp

\* the float nearest to the real number n
float(n) ==
    IF BitLength(n) <= MANT_DIG THEN n
    ELSE RoundToEven(n, Pow2(BitLength(n) - MANT_DIG))

\* sim_dt = 1.0 / SIMULATION_TICK_RATE, correctly rounded
sim_dt_float == (2 * Unit + SIMULATION_TICK_RATE) \div (2 * SIMULATION_TICK_RATE)

\* KOTH_SCORING_INTERVAL = 0.5
KOTH_SCORING_INTERVAL == Unit \div 2

\* KOTH_MAX_DURATION = 180.0 in the program, KothHalfSeconds / 2 here
KOTH_MAX_DURATION == KothHalfSeconds * (Unit \div 2)

KOTH_ZONE_CENTER_X == LOGICAL_SCREEN_WIDTH \div 2
KOTH_ZONE_CENTER_Y == LOGICAL_SCREEN_HEIGHT \div 2

\* KOTHZoneStatus
ZONE_NEUTRAL == 0
ZONE_TEAM_A == 1
ZONE_TEAM_B == 2
ZONE_CONTESTED == 3

\* StateKOTH()
StateKOTH ==
    [ team_a_score |-> 0, team_b_score |-> 0, zone_status |-> ZONE_NEUTRAL,
      time_elapsed |-> 0, game_over |-> FALSE, winner_team |-> 0 ]

\* GameManagerKOTH(wall_config_file), with the state of its match (the lobby's
\* record of it keeps what the lobby reads)
KothManager(id) ==
    [ id |-> id, kind |-> "KOTH", is_running |-> FALSE, tick_count |-> 0,
      koth_state |-> StateKOTH, scoring_timer |-> 0 ]

\* GameManagerKOTH.is_agent_in_zone (KOTH_ZONE_SHAPE = "circle")
is_agent_in_zone(a) ==
    (a.x - KOTH_ZONE_CENTER_X) * (a.x - KOTH_ZONE_CENTER_X)
      + (a.y - KOTH_ZONE_CENTER_Y) * (a.y - KOTH_ZONE_CENTER_Y)
    <= KOTH_ZONE_RADIUS * KOTH_ZONE_RADIUS

\* update_zone_control: the status of the zone for an agent table
ZoneStatus(ags) ==
    LET team_a_count == Cardinality({a \in DOMAIN ags : is_alive(ags[a])
                            /\ is_agent_in_zone(ags[a]) /\ ags[a].team = TEAM_A})
        team_b_count == Cardinality({a \in DOMAIN ags : is_alive(ags[a])
                            /\ is_agent_in_zone(ags[a]) /\ ags[a].team = TEAM_B})
    IN IF team_a_count > 0 /\ team_b_count > 0 THEN ZONE_CONTESTED
       ELSE IF team_a_count > 0 THEN ZONE_TEAM_A
       ELSE IF team_b_count > 0 THEN ZONE_TEAM_B
       ELSE ZONE_NEUTRAL

\* GameManagerKOTH.update_zone_control
update_zone_control(gm, ags) ==
    [gm EXCEPT !.koth_state.zone_status = ZoneStatus(ags)]

\* points = KOTH_POINTS_PER_SECOND * KOTH_SCORING_INTERVAL
Quantum == (KOTH_POINTS_PER_SECOND * KOTH_SCORING_INTERVAL) \div Unit

\* update_scoring: while self.scoring_timer >= KOTH_SCORING_INTERVAL
RECURSIVE award_intervals(_)
award_intervals(gm) ==
    IF gm.scoring_timer >= KOTH_SCORING_INTERVAL
    THEN LET g == [gm EXCEPT !.scoring_timer = float(@ - KOTH_SCORING_INTERVAL)]
         IN award_intervals(
              IF g.koth_state.zone_status = ZONE_TEAM_A
              THEN [g EXCEPT !.koth_state.team_a_score = @ + Quantum]
              ELSE IF g.koth_state.zone_status = ZONE_TEAM_B
              THEN [g EXCEPT !.koth_state.team_b_score = @ + Quantum]
              ELSE g)
    ELSE gm

\* GameManagerKOTH.update_scoring
update_scoring(gm, dt) ==
    award_intervals([gm EXCEPT !.scoring_timer = float(@ + dt)])

\* a win check that gives a tie at the time limit to team A
koth_check_win_condition_no_tie(gm) ==
    LET s == gm.koth_state
    IN IF s.team_a_score >= KOTH_MAX_POINTS THEN Some(TEAM_A)
       ELSE IF s.team_b_score >= KOTH_MAX_POINTS THEN Some(TEAM_B)
       ELSE IF KOTH_MAX_DURATION > 0 /\ s.time_elapsed >= KOTH_MAX_DURATION
       THEN IF s.team_a_score >= s.team_b_score THEN Some(TEAM_A) ELSE Some(TEAM_B)
       ELSE None

\* a win check that knows no time limit
koth_check_win_condition_points_only(gm) ==
    LET s == gm.koth_state
    IN IF s.team_a_score >= KOTH_MAX_POINTS THEN Some(TEAM_A)
       ELSE IF s.team_b_score >= KOTH_MAX_POINTS THEN Some(TEAM_B)
       ELSE None

\* GameManagerKOTH.check_win_condition
koth_check_win_condition(gm) ==
    LET s == gm.koth_state
    IN IF s.team_a_score >= KOTH_MAX_POINTS THEN Some(TEAM_A)
       ELSE IF s.team_b_score >= KOTH_MAX_POINTS THEN Some(TEAM_B)
       ELSE IF KOTH_MAX_DURATION > 0 /\ s.time_elapsed >= KOTH_MAX_DURATION
       THEN IF s.team_a_score > s.team_b_score THEN Some(TEAM_A)
            ELSE IF s.team_b_score > s.team_a_score THEN Some(TEAM_B)
            ELSE Some(NEUTRAL)
       ELSE None

\* GameManagerKOTH.update(dt): left is the agent table after the bullets, the
\* strategies and the purge of the dead
KothManagerUpdate(gm, left, dt) ==
    LET g1 == IF ~gm.koth_state.game_over
              THEN [gm EXCEPT !.koth_state.time_elapsed = float(@ + dt)]
              ELSE gm
        g2 == IF ~g1.koth_state.game_over
              THEN update_scoring(update_zone_control(g1, left), dt)
              ELSE g1
        winner == koth_check_win_condition(g2)
        g3 == IF ~g1.koth_state.game_over /\ winner # None
              THEN [g2 EXCEPT !.koth_state.game_over = TRUE,
                              !.koth_state.winner_team = winner[1],
                              !.is_running = FALSE]
              ELSE g2
    IN [g3 EXCEPT !.tick_count = @ + 1]

\* where an agent of a KOTH match stands: at its spawn point or on the hill
KothPlaces == { << 0, 0 >>, << KOTH_ZONE_CENTER_X, KOTH_ZONE_CENTER_Y >> }

\* a KOTH match as the driver has started it; its agents hold their places
InitKoth ==
    /\ required_clients = REQUIRED_CLIENTS_TO_START
    /\ clients = << [ws |-> 1, ready |-> TRUE, mode |-> GAME_MODE_KOTH] >>
    /\ game_manager = [KothManager(1) EXCEPT !.is_running = TRUE]
    /\ game_mode = GAME_MODE_KOTH
    /\ game_task = 1
    /\ tasks = << [NewTask EXCEPT !.pc = "loop"] >>
    /\ managersCreated = 1
    /\ sock = [s \in Sessions |-> IF s = 1 THEN "open" ELSE "none"]
    /\ hpc = [s \in Sessions |-> IF s = 1 THEN "recv" ELSE "none"]
    /\ sent = Silent
    /\ \E nA \in 1..(MaxAgents - 1), place \in [1..MaxAgents -> KothPlaces] :
         agents = [i \in 1..MaxAgents |->
                      AgentAt(place[i], IF i <= nA THEN TEAM_A ELSE TEAM_B)]
    /\ bullets = << >>
    /\ next_id = 0
    /\ raised = FALSE
    /\ NoWalls

\* one call of GameManagerKOTH.update(sim_dt): the bullets of the tick leave
\* none or one of the agents without health
KothUpdate ==
    /\ game_manager.tick_count < KothTicks
    /\ \E dead_agents \in Casualties(agents) :
         /\ agents' = Del(agents, dead_agents)
         /\ game_manager' = KothManagerUpdate(game_manager, agents', sim_dt_float)
    /\ UNCHANGED << required_clients, clients, game_mode, game_task, tasks,
                    managersCreated, sock, hpc, sent, bullets, next_id, raised,
                    wallVars >>

NextKoth == KothUpdate

SpecKoth == InitKoth /\ [][NextKoth]_vars

\* --------------------------------------------------------------- detection
\* server/gameplay/agent.py, detect_enemies and _cast_ray, in the whole-pixel
\* world of the movement model.  Angles are counted in eighths of a turn and
\* the components of a ray's direction are rounded to whole pixels like those
\* of the diagonal moves.

\* (math.cos(angle), -math.sin(angle))
RayVector(angle) ==
    LET a == angle % 8
    IN << IF a \in {0, 1, 7} THEN 1 ELSE IF a \in {3, 4, 5} THEN -1 ELSE 0,
          IF a \in {1, 2, 3} THEN -1 ELSE IF a \in {5, 6, 7} THEN 1 ELSE 0 >>

\* step_size = self.walls_state.grid_unit / RAY_STEP_DIVISOR
step_size == GRID_UNIT \div RAY_STEP_DIVISOR

\* _cast_ray: the agents near enough to be hit
Candidates(ags, id, start_x, start_y) ==
    LET fov_radius == FOV_RATIO * ags[id].radius
    IN { c \in DOMAIN ags \ {id} :
           (ags[c].x - start_x) * (ags[c].x - start_x)
             + (ags[c].y - start_y) * (ags[c].y - start_y)
           < (fov_radius + ags[c].radius) * (fov_radius + ags[c].radius) }

\* the candidates whose circle holds the point
AgentsAt(ags, cands, x, y) ==
    { c \in cands :
        (x - ags[c].x) * (x - ags[c].x) + (y - ags[c].y) * (y - ags[c].y)
        < ags[c].radius * ags[c].radius }

\* _cast_ray, the loop from the point reached after traveled pixels
RECURSIVE ray_loop(_, _, _, _, _, _, _, _)
ray_loop(ags, ws, cands, current_x, current_y, vec, traveled, max_distance) ==
    IF traveled < max_distance
    THEN LET x == current_x + vec[1] * step_size
             y == current_y + vec[2] * step_size
             t == traveled + step_size
         IN IF has_wall_at_pos(ws, x, y)
            THEN Some([distance |-> t, hit_type |-> "wall", hit_id |-> None])
            ELSE IF AgentsAt(ags, cands, x, y) # {}
            THEN Some([distance |-> t, hit_type |-> "agent",
                       hit_id |-> Some(Min(AgentsAt(ags, cands, x, y)))])
            ELSE ray_loop(ags, ws, cands, x, y, vec, t, max_distance)
    ELSE None

\* Agent._cast_ray of agent id
cast_ray(ags, ws, id, start_x, start_y, angle, max_distance) ==
    ray_loop(ags, ws, Candidates(ags, id, start_x, start_y), start_x, start_y,
             RayVector(angle), 0, max_distance)

\* detect_enemies: the angles of the rays of the cone around the gun angle
RayAngles(gun_angle) ==
    { gun_angle - FOV_OPENING \div 2 + i * (FOV_OPENING \div FOV_NUM_RAYS) :
        i \in 0..FOV_NUM_RAYS }

\* detect_enemies: the agents that the rays of the cone hit
RayHits(ags, ws, id, gun_angle) ==
    LET hits == { cast_ray(ags, ws, id, ags[id].x, ags[id].y, angle,
                           FOV_RATIO * ags[id].radius) : angle \in RayAngles(gun_angle) }
    IN { hit[1].hit_id[1] : hit \in { h \in hits : h # None /\ h[1].hit_type = "agent" } }

\* where the agents of the detection model stand: the two middle rows
RayPlaces ==
    { p \in Pixels : p[2] \in { LOGICAL_SCREEN_HEIGHT \div 2, LOGICAL_SCREEN_HEIGHT \div 2 + 1 } }

\* three agents at free places of a walled world, the second of either team
InitRay ==
    /\ NoLobby
    /\ \E cells \in WallMaps :
         walls_state = [StateWalls EXCEPT !.cells = cells]
    /\ \E place \in [1..MaxAgents -> RayPlaces], team2 \in {TEAM_A, TEAM_B} :
         /\ \A i \in 1..MaxAgents :
               ~circle_hits_wall(place[i][1], place[i][2], DEFAULT_ENTITY_RADIUS, walls_state)
         /\ \A i \in 1..MaxAgents, j \in 1..MaxAgents :
               i < j => ~circles_overlap(place[i][1], place[i][2], DEFAULT_ENTITY_RADIUS,
                                         place[j][1], place[j][2], DEFAULT_ENTITY_RADIUS)
         /\ agents = [i \in 1..MaxAgents |->
                         AgentAt(place[i], IF i = 1 THEN TEAM_A
                                           ELSE IF i = 2 THEN team2 ELSE TEAM_B)]
    /\ bullets = << >>
    /\ next_id = 0
    /\ raised = FALSE
    /\ peer_walls = StateWalls
    /\ unpacked = None

\* agent.detect_enemies() with the gun at the angle its strategy has set
Detect(id, gun_angle) ==
    /\ agents' = [agents EXCEPT ![id] =
                     detect_enemies(agents, id,
                                    [a \in DOMAIN agents |->
                                        RayHits(agents, walls_state, a, gun_angle)])]
    /\ UNCHANGED << bullets, next_id, raised, lobbyVars, wallVars >>

NextRay == \E id \in DOMAIN agents, gun_angle \in 0..7 : Detect(id, gun_angle)

SpecRay == InitRay /\ [][NextRay]_vars

\* -------------------------------------------------------------- wall state
\* common/states/state_walls.py: the mutators of StateWalls, its change buffer
\* and the packet that carries the buffer to a peer.

\* WallOperation
ADD == 1
REMOVE == 2

\* an add_wall that does not look at the bounds of the grid
add_wall_unchecked(ws, cx, cy, track_change) ==
    IF << cx, cy >> \notin ws.cells
    THEN [ws EXCEPT !.cells = @ \cup {<< cx, cy >>},
                    !.change_buffer = IF track_change THEN Append(@, << ADD, cx, cy >>) ELSE @]
    ELSE ws

\* StateWalls.add_wall
add_wall(ws, cx, cy, track_change) ==
    IF ~is_valid_cell(cx, cy) THEN ws
    ELSE IF << cx, cy >> \notin ws.cells
    THEN [ws EXCEPT !.cells = @ \cup {<< cx, cy >>},
                    !.change_buffer = IF track_change THEN Append(@, << ADD, cx, cy >>) ELSE @]
    ELSE ws

\* StateWalls.remove_wall
remove_wall(ws, cx, cy, track_change) ==
    IF << cx, cy >> \in ws.cells
    THEN [ws EXCEPT !.cells = @ \ {<< cx, cy >>},
                    !.change_buffer = IF track_change THEN Append(@, << REMOVE, cx, cy >>) ELSE @]
    ELSE ws

\* for gx in range(cx, cx + w_cells): for gy in range(cy, cy + h_cells)
RectCells(cx, cy, w_cells, h_cells) ==
    [k \in 1..(w_cells * h_cells) |->
        << cx + ((k - 1) \div h_cells), cy + ((k - 1) % h_cells) >>]

\* add_wall for each cell of a list, in its order
RECURSIVE add_walls(_, _, _)
add_walls(ws, cells, track_change) ==
    IF cells = << >> THEN ws
    ELSE add_walls(add_wall(ws, Head(cells)[1], Head(cells)[2], track_change),
                   Tail(cells), track_change)

\* remove_wall for each cell of a list, in its order
RECURSIVE remove_walls(_, _, _)
remove_walls(ws, cells, track_change) ==
    IF cells = << >> THEN ws
    ELSE remove_walls(remove_wall(ws, Head(cells)[1], Head(cells)[2], track_change),
                      Tail(cells), track_change)

\* StateWalls.add_rect
add_rect(ws, cx, cy, w_cells, h_cells, track_change) ==
    add_walls(ws, RectCells(cx, cy, w_cells, h_cells), track_change)

\* StateWalls.clear_area
clear_area(ws, cx, cy, w_cells, h_cells, track_change) ==
    remove_walls(ws, RectCells(cx, cy, w_cells, h_cells), track_change)

\* list(self.cells): the cells in one of the orders a set can be listed in
Listings(cells) ==
    { l \in [1..Cardinality(cells) -> cells] :
        \A i, j \in 1..Cardinality(cells) : i # j => l[i] # l[j] }

\* StateWalls.clear, the set listed in the given order
clear(ws, track_change, listing) ==
    IF track_change THEN remove_walls(ws, listing, TRUE)
    ELSE [ws EXCEPT !.cells = {}]

\* load_from_data: the cells of the '1's of the lines, row by row from the top
\* (grid_lines[0], the highest y)
GridCells(grid_lines) ==
    LET num_rows == Len(grid_lines)
        At(k) == << ((k - 1) \div MaxCols) + 1, ((k - 1) % MaxCols) + 1 >>
        ones == SelectSeq([k \in 1..(num_rows * MaxCols) |-> At(k)],
                          LAMBDA rc : rc[2] <= Len(grid_lines[rc[1]])
                                      /\ grid_lines[rc[1]][rc[2]] = "1")
    IN [k \in 1..Len(ones) |-> << ones[k][2] - 1, num_rows - 1 - (ones[k][1] - 1) >>]

\* StateWalls.load_from_data
load_from_data(ws, grid_lines, track_change) ==
    add_walls(clear(ws, FALSE, << >>), GridCells(grid_lines), track_change)

\* StateWalls.clear_buffer
clear_buffer(ws) == [ws EXCEPT !.change_buffer = << >>]

\* struct.pack("!H", n)
PackH(n) == << (n \div 256) % 256, n % 256 >>

\* struct.unpack("!H", data[offset : offset + 2])
UnpackH(data, offset) == data[offset + 1] * 256 + data[offset + 2]

\* a packing that writes cy before cx
pack_changes_yx(ws) ==
    LET Record(ch) == << ch[1] >> \o PackH(ch[3]) \o PackH(ch[2])
        body[k \in 0..Len(ws.change_buffer)] ==
            IF k = 0 THEN << >> ELSE body[k - 1] \o Record(ws.change_buffer[k])
    IN IF ws.change_buffer = << >> THEN None
       ELSE IF Len(ws.change_buffer) > MAX_WALL_CHANGES THEN Some("ValueError")
       ELSE Some(PackH(Len(ws.change_buffer)) \o body[Len(ws.change_buffer)])

\* StateWalls.pack_changes: None, the bytes, or the ValueError it raises
pack_changes(ws) ==
    LET Record(ch) == << ch[1] >> \o PackH(ch[2]) \o PackH(ch[3])
        body[k \in 0..Len(ws.change_buffer)] ==
            IF k = 0 THEN << >> ELSE body[k - 1] \o Record(ws.change_buffer[k])
    IN IF ws.change_buffer = << >> THEN None
       ELSE IF Len(ws.change_buffer) > MAX_WALL_CHANGES THEN Some("ValueError")
       ELSE Some(PackH(Len(ws.change_buffer)) \o body[Len(ws.change_buffer)])

\* unpack_changes, the loop over the changes of the packet from the offset on:
\* the state and the two sets it builds, or the ValueError of a bad cell
RECURSIVE unpack_loop(_, _, _, _, _, _)
unpack_loop(ws, packed_data, offset, left, added_cells, removed_cells) ==
    IF left = 0
    THEN [ws |-> ws, result |-> Some(<< added_cells, removed_cells >>)]
    ELSE LET operation == packed_data[offset + 1]
             cx == UnpackH(packed_data, offset + 1)
             cy == UnpackH(packed_data, offset + 3)
             next == offset + WALL_CHANGE_PACKED_SIZE
         IN IF ~is_valid_cell(cx, cy)
            THEN [ws |-> ws, result |-> Some("ValueError")]
            ELSE IF operation = ADD
            THEN unpack_loop(add_wall(ws, cx, cy, FALSE), packed_data, next, left - 1,
                             added_cells \cup {<< cx, cy >>}, removed_cells)
            ELSE IF operation = REMOVE
            THEN unpack_loop(remove_wall(ws, cx, cy, FALSE), packed_data, next, left - 1,
                             added_cells, removed_cells \cup {<< cx, cy >>})
            ELSE [ws |-> ws, result |-> Some("ValueError")]

\* StateWalls.unpack_changes(packed_data): packed_data is None or Some(bytes)
unpack_changes(ws, packed_data) ==
    IF packed_data = None \/ packed_data[1] = << >>
    THEN [ws |-> ws, result |-> Some(<< {}, {} >>)]
    ELSE IF Len(packed_data[1]) < 2
    THEN [ws |-> ws, result |-> Some("ValueError")]
    ELSE LET num_changes == UnpackH(packed_data[1], 0)
         IN IF Len(packed_data[1]) # 2 + num_changes * WALL_CHANGE_PACKED_SIZE
            THEN [ws |-> ws, result |-> Some("ValueError")]
            ELSE unpack_loop(ws, packed_data[1], 2, num_changes, {}, {})

\* the cell coordinates the callers pass: those of the grid and one beyond it
\* on every side
CellArgs ==
    ((-1)..(LOGICAL_SCREEN_WIDTH \div GRID_UNIT)) \X ((-1)..(LOGICAL_SCREEN_HEIGHT \div GRID_UNIT))

\* walls_state.add_wall(cx, cy, track_change)
AddWall(cx, cy, track_change) ==
    /\ Len(walls_state.change_buffer) < MaxChanges
    /\ walls_state' = add_wall(walls_state, cx, cy, track_change)
    /\ UNCHANGED << agents, bullets, next_id, raised, lobbyVars, peer_walls, unpacked >>

\* walls_state.remove_wall(cx, cy, track_change)
RemoveWall(cx, cy, track_change) ==
    /\ Len(walls_state.change_buffer) < MaxChanges
    /\ walls_state' = remove_wall(walls_state, cx, cy, track_change)
    /\ UNCHANGED << agents, bullets, next_id, raised, lobbyVars, peer_walls, unpacked >>

\* walls_state.add_rect(cx, cy, w_cells, h_cells, track_change)
AddRect(cx, cy, w_cells, h_cells, track_change) ==
    /\ walls_state' = add_rect(walls_state, cx, cy, w_cells, h_cells, track_change)
    /\ Len(walls_state'.change_buffer) <= MaxChanges
    /\ UNCHANGED << agents, bullets, next_id, raised, lobbyVars, peer_walls, unpacked >>

\* walls_state.clear_area(cx, cy, w_cells, h_cells, track_change)
ClearArea(cx, cy, w_cells, h_cells, track_change) ==
    /\ walls_state' = clear_area(walls_state, cx, cy, w_cells, h_cells, track_change)
    /\ Len(walls_state'.change_buffer) <= MaxChanges
    /\ UNCHANGED << agents, bullets, next_id, raised, lobbyVars, peer_walls, unpacked >>

\* walls_state.clear(track_change)
Clear(track_change) ==
    /\ \E listing \in Listings(walls_state.cells) :
          walls_state' = clear(walls_state, track_change, listing)
    /\ Len(walls_state'.change_buffer) <= MaxChanges
    /\ UNCHANGED << agents, bullets, next_id, raised, lobbyVars, peer_walls, unpacked >>

\* the grids of the wall files of the model: rows of '0' and '1', some of them
\* longer or more than the grid
GridLines ==
    { << << "1", "0", "0" >>, << "0", "0", "1" >> >>,
      << << "0", "1", "0", "1" >>, << "0", "0", "0", "0" >>, << "1", "0", "0", "0" >> >> }

\* walls_state.load_from_data(grid_lines, track_change)
LoadFromData(grid_lines, track_change) ==
    /\ walls_state' = load_from_data(walls_state, grid_lines, track_change)
    /\ Len(walls_state'.change_buffer) <= MaxChanges
    /\ UNCHANGED << agents, bullets, next_id, raised, lobbyVars, peer_walls, unpacked >>

\* walls_state.clear_buffer()
ClearBuffer ==
    /\ walls_state' = clear_buffer(walls_state)
    /\ UNCHANGED << agents, bullets, next_id, raised, lobbyVars, peer_walls, unpacked >>

\* peer.unpack_changes(walls_state.pack_changes()): the packet of the server's
\* buffer reaches the peer, once
Sync ==
    /\ unpacked = None
    /\ pack_changes(walls_state) # Some("ValueError")
    /\ LET res == unpack_changes(peer_walls, pack_changes(walls_state))
       IN /\ peer_walls' = res.ws
          /\ unpacked' = res.result
    /\ UNCHANGED << agents, bullets, next_id, raised, lobbyVars, walls_state >>

\* a server and a peer that hold the same walls, the change buffer empty
InitSync ==
    /\ NoLobby
    /\ agents = << >> /\ bullets = << >> /\ next_id = 0 /\ raised = FALSE
    /\ \E cells \in SUBSET Cells :
         /\ walls_state = [StateWalls EXCEPT !.cells = cells]
         /\ peer_walls = walls_state
    /\ unpacked = None

\* tracked changes of the server's walls, and the packet of its buffer
NextSync ==
    \/ \E c \in CellArgs : AddWall(c[1], c[2], TRUE)
    \/ \E c \in CellArgs : RemoveWall(c[1], c[2], TRUE)
    \/ Sync

SpecSync == InitSync /\ [][NextSync]_vars

\* the cells and the rectangles (cx, cy, w_cells, h_cells) that the callers of
\* the wall model pass, some of them beyond the grid
WallArgs ==
    { << -1, 0 >>, << 0, 0 >>, << 2, 1 >>,
      << LOGICAL_SCREEN_WIDTH \div GRID_UNIT, 0 >>,
      << 1, LOGICAL_SCREEN_HEIGHT \div GRID_UNIT >> }

RectArgs == { << -1, 0, 2, 2 >>, << 2, 1, 2, 1 >> }

\* a server and a peer constructed without walls
InitWalls ==
    /\ NoLobby
    /\ NoSimulation

\* every mutator of the server's walls, and the packet of its buffer, while
\* the buffer holds no more than MaxTracked changes
NextWalls ==
    /\ \/ \E c \in WallArgs, track_change \in BOOLEAN : AddWall(c[1], c[2], track_change)
       \/ \E c \in WallArgs, track_change \in BOOLEAN : RemoveWall(c[1], c[2], track_change)
       \/ \E r \in RectArgs, track_change \in BOOLEAN :
             AddRect(r[1], r[2], r[3], r[4], track_change)
       \/ \E r \in RectArgs, track_change \in BOOLEAN :
             ClearArea(r[1], r[2], r[3], r[4], track_change)
       \/ \E track_change \in BOOLEAN : Clear(track_change)
       \/ \E grid_lines \in GridLines, track_change \in BOOLEAN :
             LoadFromData(grid_lines, track_change)
       \/ ClearBuffer
       \/ Sync
    /\ Len(walls_state'.change_buffer) <= MaxTracked

SpecWalls == InitWalls /\ [][NextWalls]_vars

\* ------------------------------------------------------ packets from the wire
\* StateWalls.unpack_changes handed bytes that no pack_changes produced: the
\* records of such a packet, with op bytes ADD, REMOVE and an unknown one, and
\* cells of the grid and beyond it
WireRecords ==
    { << op >> \o PackH(c[1]) \o PackH(c[2]) :
        op \in {ADD, REMOVE, 0},
        c \in { << 0, 0 >>, << 2, 1 >>,
                << LOGICAL_SCREEN_WIDTH \div GRID_UNIT, 0 >>,
                << 1, LOGICAL_SCREEN_HEIGHT \div GRID_UNIT >> } }

\* packets of one or two records, their count field right or one too many
WirePackets ==
    LET bodies == WireRecords \cup { r \o s : r \in WireRecords, s \in WireRecords }
    IN { PackH(Len(b) \div WALL_CHANGE_PACKED_SIZE + extra) \o b :
           b \in bodies, extra \in {0, 1} }

\* the peer's walls_state.unpack_changes(packed_data)
Receive(packed_data) ==
    /\ LET res == unpack_changes(peer_walls, Some(packed_data))
       IN /\ peer_walls' = res.ws
          /\ unpacked' = res.result
    /\ UNCHANGED << agents, bullets, next_id, raised, lobbyVars, walls_state >>

InitPacket == InitSync

NextPacket == \E packed_data \in WirePackets : Receive(packed_data)

SpecPacket == InitPacket /\ [][NextPacket]_vars

\* ------------------------------------------------------- the agents' steps
\* GameManager.update's loop over the agents, each strategy moving its agent
\* what a strategy does with its agent in a tick: it leaves it where it is or
\* calls move once
Steps == Direction \cup {"stay"}

\* a tick that validates every agent's move against the positions the tick
\* began with
move_agents_at_once(ags, ws, ids, dt, steps) ==
    [id \in DOMAIN ags |->
        IF id \in ids /\ steps[id] # "stay"
        THEN move(ags, ws, id, dt, steps[id])
        ELSE ags[id]]

\* for agent in self.agents.values(): agent.update_strategy(dt): the agents
\* take their turns in the order of the table, each move checked against the
\* positions the earlier turns left
RECURSIVE move_agents(_, _, _, _, _)
move_agents(ags, ws, ids, dt, steps) ==
    IF ids = {} THEN ags
    ELSE LET id == Min(ids)
             moved == IF steps[id] = "stay"
                      THEN ags
                      ELSE [ags EXCEPT ![id] = move(ags, ws, id, dt, steps[id])]
         IN move_agents(moved, ws, ids \ {id}, dt, steps)

\* the steps the strategies can ask for in a tick: every target inside the world
TickSteps ==
    { steps \in [DOMAIN agents -> Steps] :
        \A id \in DOMAIN agents :
            steps[id] # "stay" => MoveTarget(agents[id], sim_dt, steps[id]) \in Pixels }

\* one tick of the agents' loop
StepTick ==
    /\ \E steps \in TickSteps :
         agents' = move_agents(agents, walls_state, DOMAIN agents, sim_dt, steps)
    /\ UNCHANGED << bullets, next_id, raised, lobbyVars, wallVars >>

InitStep == InitMove

NextStep == StepTick

SpecStep == InitStep /\ [][NextStep]_vars

\* ------------------------------------------------------------ timed matches
\* a KOTH match or a CTF match, as the tick driver runs the one or the other
InitMatch == InitKoth \/ InitCTF

NextMatch ==
    \/ game_manager.kind = "KOTH" /\ KothUpdate
    \/ game_manager.kind = "CTF" /\ CTFUpdate

SpecMatch == InitMatch /\ [][NextMatch]_vars

\* ------------------------------------------------------------------ claims
\* what a step did, read off the two states
Msg(s) == sent[s][1]
GotMsg(s, type) == sent[s] # None /\ Msg(s).type = type
ReadyStarts(s) == hpc[s] # "start_send" /\ hpc'[s] = "start_send"
TaskCreated == Len(tasks') > Len(tasks)
HandlerExits(s) == hpc[s] \in {"recv", "mode_send", "start_send"} /\ hpc'[s] = "done"
\* a step in which session s, present in the table, has a SELECT_MODE handled
Selects(s) == s \in ClientSet /\ \E mode \in Modes : RecvSelectMode(s, mode)
Installs == game_manager'.id # game_manager.id
TickPcs == {"created", "loop", "sleep", "bcast_entities", "bcast_bullets", "bcast_koth"}
PostGamePcs == {"end_send", "grace", "closing"}
Connected(s) == s \in ClientSet /\ Open(s)

\* C1: START_GAME is broadcast, and the tick-driver task is created, only in a
\* state where enough sessions are connected, all are ready, all have selected
\* a mode and the modes are identical.
C1_StartOnlyWhenAllHold ==
    [][ /\ (\E s \in Sessions : ReadyStarts(s)) => check_can_start(clients')
        /\ TaskCreated => check_can_start(clients) ]_vars

\* C2: whenever the four start conditions hold and no match is running, the
\* match is started without a further client message: in a state where every
\* handler waits for the next message and the conditions hold, a driver exists.
C2_StartsWithoutFurtherMessage ==
    ( /\ \A s \in Sessions : hpc[s] \in {"none", "recv", "done"}
      /\ clients # << >>
      /\ check_can_start(clients) )
    => (game_task # NoTask \/ \E t \in 1..Len(tasks) : Live(t))

\* C3: at most one tick-driver task drives ticks at any time, and no second
\* START_GAME broadcast is under way while a handler is suspended in one.
C3_SingleDriver ==
    /\ Cardinality({ t \in 1..Len(tasks) : tasks[t].pc \in TickPcs }) <= 1
    /\ Cardinality({ s \in Sessions : hpc[s] = "start_send" }) <= 1
\* the winner a manager's win condition has decided, if any
WinDecided(gm) ==
    IF gm.kind = "KOTH" THEN gm.koth_state.game_over ELSE gm.winner_team # None
DecidedWinner(gm) ==
    IF gm.kind = "KOTH" THEN gm.koth_state.winner_team ELSE gm.winner_team[1]

\* C4: when a match ends because its win condition was decided, the GAME_END
\* sent to a session carries the winner that win condition decided, for a
\* Survival match and for a KOTH match alike.
C4_GameEndCarriesWinner ==
    \A s \in Sessions :
        (GotMsg(s, "GAME_END") /\ game_manager # NoManager /\ WinDecided(game_manager))
        => Msg(s).winner = DecidedWinner(game_manager)

\* a step in which driver t leaves its tick loop because too few sessions are
\* left: it meets the cancellation a teardown requested, or its loop condition
\* fails on the session count
EndsForLackOfClients(t) ==
    /\ t <= Len(tasks)
    /\ tasks'[t].pc \in PostGamePcs
    /\ \/ tasks[t].pc \in TickPcs \ {"loop"} /\ tasks[t].cancelled
       \/ tasks[t].pc = "loop" /\ Len(clients) < required_clients

\* C5 as claimed: when a running match ends because a disconnection dropped the
\* sessions below required_clients, no GAME_END is sent to a remaining session.
C5_NoGameEndOnAbnormalEnd ==
    [][ \A t \in 1..MaxTasks : EndsForLackOfClients(t)
            => \A s \in Sessions : ~GotMsg(s, "GAME_END")' ]_vars

\* C5 as amended: when a running match ends because a disconnection dropped the
\* sessions below required_clients, the driver still runs its exit sequence:
\* every session left in the table with an open socket is sent one GAME_END,
\* whose winner byte is the winner recorded so far (0 when there is none).
C5_GameEndOnAbnormalEnd ==
    [][ \A t \in 1..MaxTasks : EndsForLackOfClients(t)
            => \A s \in Sessions :
                  IF Connected(s)
                  THEN sent'[s] = Some([type |-> "GAME_END",
                                        winner |-> GameEndWinner(game_manager)])
                  ELSE sent'[s] = None ]_vars

\* C5 witness: GAME_END has just been sent to a session while fewer than
\* required_clients sessions are left and no task is referenced any more.
C5_Witness ==
    /\ Len(clients) < required_clients
    /\ game_task = NoTask
    /\ \E s \in Sessions : Connected(s) /\ GotMsg(s, "GAME_END")
    /\ \E t \in 1..Len(tasks) : tasks[t].pc = "end_send"

\* C6: a disconnect that leaves fewer than required_clients sessions cancels
\* every driver that is in its tick loop and marks the manager not running
\* (so that no update follows); one that leaves enough sessions changes neither.
C6_DisconnectStopsMatch ==
    [][ \A s \in Sessions : HandlerExits(s) =>
          IF Len(clients') < required_clients
          THEN /\ \A t \in 1..Len(tasks) :
                     tasks[t].pc \in TickPcs => tasks'[t].cancelled
               /\ ~game_manager'.is_running
          ELSE tasks' = tasks /\ game_manager' = game_manager ]_vars

\* C7: once GAME_END has been broadcast the post-game sequence runs to its end:
\* the driver finishes only by closing every connected session and emptying
\* the session table.
C7_PostGameCompletes ==
    [][ \A t \in 1..MaxTasks :
          (t <= Len(tasks) /\ tasks[t].pc \in PostGamePcs /\ tasks'[t].pc = "done")
          => (clients' = << >> /\ \A s \in Sessions : ~Open(s)') ]_vars
KindOf(m) ==
    IF m = GAME_MODE_KOTH THEN "KOTH"
    ELSE IF m = GAME_MODE_CTF THEN "CTF" ELSE "Survival"

\* C9 as claimed: for every mode m (Survival, KOTH, CTF), after a SELECT_MODE
\* that leaves all non-null selections agreeing on m the installed manager is
\* the manager of mode m.
C9_ManagerOfEveryMode ==
    [][ \A s \in Sessions : \A m \in Modes :
          (Selects(s) /\ modes_selected(clients') = {m})
          => game_manager'.kind = KindOf(m) ]_vars

\* C9 as amended: after a SELECT_MODE that leaves all non-null selections
\* agreeing on m, the installed mode is m and the installed manager is the KOTH
\* manager when m is KOTH and the Survival manager for every other mode id
\* (Survival, and CTF too: the unified lobby has no CTF manager); a new
\* manager instance replaces the old one exactly when m differs from the mode
\* installed before.
C9_ManagerOfAgreedMode ==
    [][ \A s \in Sessions : \A m \in Modes :
          (Selects(s) /\ modes_selected(clients') = {m})
          => /\ game_mode' = m
             /\ game_manager'.kind = IF m = GAME_MODE_KOTH THEN "KOTH" ELSE "Survival"
             /\ Installs <=> game_mode # m ]_vars

\* C9 witness: the consensus has changed to KOTH and the KOTH manager has
\* replaced the first manager.
C9_Witness ==
    /\ managersCreated = 2
    /\ game_mode = GAME_MODE_KOTH /\ game_manager.kind = "KOTH"
    /\ modes_selected(clients) = {GAME_MODE_KOTH}
    /\ \E s \in Sessions : hpc[s] = "mode_send" /\ GotMsg(s, "MODE_SELECTED")

\* C10: every SELECT_MODE after which all non-null selections agree on a mode
\* m has MODE_SELECTED(m) sent to every connected session, also when m is the
\* mode already installed.
C10_ModeSelectedOnEveryConsensus ==
    [][ \A s \in Sessions : \A m \in Modes :
          (Selects(s) /\ modes_selected(clients') = {m})
          => \A r \in Sessions :
                Connected(r) => sent'[r] = Some([type |-> "MODE_SELECTED", mode |-> m]) ]_vars
\* the awaits of a broadcast pass
BcastPcs == {"bcast_entities", "bcast_bullets", "bcast_koth"}

\* C11: a session whose send never completes does not block the pump: a
\* broadcast pass that is under way can always resume, so that the driver goes
\* on to later ticks and the other sessions to later broadcasts.
C11_SlowClientDoesNotBlock ==
    \A t \in 1..MaxTasks :
        (t <= Len(tasks) /\ tasks[t].pc \in BcastPcs) => ENABLED ResumeBroadcast(t)
\* the packet type a driver suspended at a broadcast await has just sent
TypeAt(pc) ==
    IF pc = "bcast_entities" THEN "ENTITIES"
    ELSE IF pc = "bcast_bullets" THEN "BULLETS" ELSE "KOTH_STATE"

\* driver t moves to another await or back to the loop
Moves(t) == t <= Len(tasks) /\ tasks'[t].pc # tasks[t].pc

\* C12: when the send of a broadcast message to one session fails, every
\* other connected session is still sent that message in the same pass, and
\* the pass goes on: once the sends have returned the driver sends the next
\* packet or is back at the loop condition, it does not leave the tick loop.
C12_SendFailureIsContained ==
    [][ \A t \in 1..MaxTasks :
          /\ (Moves(t) /\ tasks'[t].pc \in BcastPcs)
             => \A s \in Sessions :
                   IF Connected(s)
                   THEN sent'[s] # None /\ sent'[s][1].type = TypeAt(tasks'[t].pc)
                   ELSE sent'[s] = None
          /\ (Moves(t) /\ tasks[t].pc \in BcastPcs /\ ~tasks[t].cancelled)
             => /\ tasks'[t].pc \in BcastPcs \cup {"loop"}
                /\ game_manager'.is_running = game_manager.is_running ]_vars

\* C12 witness: the bullets packet of a pass has been sent to a connected
\* session while another session of the table has lost its connection (the
\* send to it raised).
C12_Witness ==
    \E t \in 1..Len(tasks) : \E s, r \in Sessions :
        /\ tasks[t].pc = "bcast_bullets"
        /\ s \in ClientSet /\ sock[s] = "closed"
        /\ Connected(r) /\ GotMsg(r, "BULLETS")
\* C13: the packets of one broadcast pass encode the state of one and the same
\* game manager at the end of one and the same tick: the bullets packet and
\* the mode packet carry the manager and the tick of the entities packet that
\* opened the pass.
C13_PassIsOneSnapshot ==
    \A t \in 1..MaxTasks : \A s \in Sessions :
        ( /\ t <= Len(tasks)
          /\ tasks[t].pc \in {"bcast_bullets", "bcast_koth"}
          /\ GotMsg(s, TypeAt(tasks[t].pc)) )
        => /\ Msg(s).gm = tasks[t].entities_bytes[1].gm
           /\ Msg(s).tick = tasks[t].entities_bytes[1].tick
\* driver t is launched: it starts running and enters its tick loop
LaunchStep(t) ==
    t <= Len(tasks) /\ tasks[t].pc = "created" /\ tasks'[t].pc = "loop"

\* C14: every match runs on a manager instance that has not run a match
\* before: when the driver is launched the manager has tick_count 0, no
\* winner, game_over false and an agent table nothing was spawned into, and
\* after spawning the table holds the agents of one pass over the spawn tables.
C14_FreshManagerPerMatch ==
    [][ \A t \in 1..MaxTasks : LaunchStep(t) =>
          /\ game_manager.tick_count = 0
          /\ game_manager.winner_team = None
          /\ ~game_manager.koth_state.game_over
          /\ game_manager.spawns = 0 /\ game_manager.teams = {}
          /\ game_manager'.spawns = 1 ]_vars

\* C15: a strategy that raises during a tick is contained by the manager: no
\* update call is left by an exception, and every update call increases
\* tick_count by exactly 1 (so the steps after the agents' updates have run).
C15_StrategyFaultContained ==
    [][~raised' /\ game_manager'.tick_count = game_manager.tick_count + 1]_vars

\* C16: at the end of every update every agent of the table has health > 0 (an
\* agent whose health reached 0 was removed in that tick, and health is never
\* negative), and no agent's detected_enemies holds the id of an agent that is
\* not in the table.
C16_DeadAgentsPurged ==
    \A a \in DOMAIN agents :
        /\ agents[a].health > 0
        /\ agents[a].detected_enemies \subseteq DOMAIN agents

\* an agent was killed and purged while another agent, which had detected it in
\* that tick, stays in the table with an enemy still detected
C16_Witness ==
    /\ game_manager.tick_count = MaxUpdates
    /\ DOMAIN agents # 1..MaxAgents
    /\ \E a \in DOMAIN agents :
           agents[a].detected_enemies # {} /\ agents[a].health = LowHealth

\* the bullets that can reach agent a in the coming tick without being its own
\* or its team's: those in the table and the shots its enemies fire in the tick
EnemyShots(a) ==
    Cardinality({ b \in DOMAIN bullets :
                    bullets[b].team # agents[a].team /\ bullets[b].owner_id # a })
    + Cardinality({ o \in DOMAIN agents :
                    /\ o # a
                    /\ agents[o].team # agents[a].team
                    /\ agents[o].shoot_timer >= 0
                    /\ agents[o].shoot_timer - sim_dt <= 0 })

\* the health agent a loses in the step (all of it when a is purged)
Loss(a) ==
    agents[a].health - (IF a \in DOMAIN agents' THEN agents'[a].health ELSE 0)

\* C17: a bullet never damages its owner or an agent of its team: in every
\* tick the health an agent loses is at most the damage of the bullets of
\* other teams, not its own, that are in play in that tick.
C17_NoFriendlyFire ==
    [][\A a \in DOMAIN agents : Loss(a) <= DEFAULT_AGENT_DAMAGE * EnemyShots(a)]_vars

\* one bullet was fired in all; it lay over every agent, killed the only enemy
\* of its team and left its owner and its owner's teammate unhurt
C17_Witness ==
    /\ next_id = 1
    /\ bullets = << >>
    /\ DOMAIN agents = {1, 2}
    /\ agents[1].team = agents[2].team
    /\ \A a \in {1, 2} : agents[a].health \in HealthArgs

\* the manager has recorded team w as winner and stopped
EndedWith(w) ==
    game_manager.winner_team = Some(w) /\ ~game_manager.is_running

\* the outcome of the win check for one or two surviving teams
WinCheckSurvivors ==
    /\ \A w \in Teams : TeamsOf(agents) = {w} => EndedWith(w)
    /\ Cardinality(TeamsOf(agents)) >= 2 =>
           game_manager.is_running /\ game_manager.winner_team = None

\* C18: after the purge of a Survival tick, one surviving team is recorded as
\* winner and the match stops; no survivor ends the match as a draw, winner
\* NEUTRAL; two surviving teams let the match continue.
C18_SurvivalWinCheck ==
    game_manager.tick_count > 0 =>
        /\ WinCheckSurvivors
        /\ DOMAIN agents = {} => EndedWith(NEUTRAL)

\* the tick adds a bullet owned by agent id to the bullet table
FiresIn(id) ==
    /\ next_id' # next_id
    /\ next_id \in DOMAIN bullets'
    /\ bullets'[next_id].owner_id = id

\* C19: no bullet owned by an agent is added to the bullet table during a tick
\* that the agent enters with reload_timer set (not None), whatever load_bullet
\* and start_reload calls its strategy made in the ticks before.
C19_NoShotWhileReloading ==
    [][\A id \in DOMAIN agents : FiresIn(id) => agents[id].reload_timer = None]_vars

C21_InfiniteAmmoNeverReloads ==
    /\ [](\A id \in DOMAIN agents :
             agents[id].current_ammo = AMMO_INFINITE => agents[id].reload_timer = None)
    /\ [][\A id \in DOMAIN agents :
             agents[id].current_ammo = AMMO_INFINITE =>
                 agents'[id].current_ammo = AMMO_INFINITE]_vars

\* an agent with infinite ammo has fired as many bullets as there are ids and
\* has its next shot loaded
C21_Witness ==
    \E id \in DOMAIN agents :
        /\ agents[id].current_ammo = AMMO_INFINITE
        /\ agents[id].shoot_timer > 0
        /\ DOMAIN bullets = 0..MAX_BULLET_ID
        /\ \A b \in DOMAIN bullets : bullets[b].owner_id = id

\* a wall cell lies in the bounding range of the circle of radius r around p:
\* from the cell of its lower left corner to the cell of its upper right one
WallInBounds(p, r) ==
    \E c \in walls_state.cells :
        /\ (p[1] - r) \div GRID_UNIT <= c[1] /\ c[1] <= (p[1] + r) \div GRID_UNIT
        /\ (p[2] - r) \div GRID_UNIT <= c[2] /\ c[2] <= (p[2] + r) \div GRID_UNIT

\* the circle of agent id, put at p, overlaps the circle of another agent
AgentInWay(id, p) ==
    \E o \in DOMAIN agents \ {id} :
        (p[1] - agents[o].x) * (p[1] - agents[o].x)
        + (p[2] - agents[o].y) * (p[2] - agents[o].y)
        < (agents[id].radius + agents[o].radius) * (agents[id].radius + agents[o].radius)

PositionOf(a) == << a.x, a.y >>

\* C22: a move whose target circle has a wall cell in its bounding range leaves
\* the position as it is and sets blocked to (WALL, None); a move whose target
\* is free of walls and of other agents puts the agent on the target and clears
\* blocked; so no agent ever stands where its bounding cells contain a wall.
C22_MoveRespectsWalls ==
    /\ [][\A id \in DOMAIN agents, direction \in Direction :
             Move(id, direction) =>
                 LET target == MoveTarget(agents[id], sim_dt, direction)
                 IN /\ WallInBounds(target, agents[id].radius) =>
                        /\ PositionOf(agents'[id]) = PositionOf(agents[id])
                        /\ agents'[id].blocked =
                               Some([collision_type |-> "WALL", obstacle_id |-> None])
                    /\ (~WallInBounds(target, agents[id].radius)
                           /\ ~AgentInWay(id, target)) =>
                        /\ PositionOf(agents'[id]) = target
                        /\ agents'[id].blocked = None]_vars
    /\ [](\A id \in DOMAIN agents :
             ~WallInBounds(PositionOf(agents[id]), agents[id].radius))

\* one agent stands blocked by a wall, the other has moved and is not blocked
C22_Witness ==
    /\ walls_state.cells # {}
    /\ agents[1].blocked = Some([collision_type |-> "WALL", obstacle_id |-> None])
    /\ agents[2].blocked = None
    /\ PositionOf(agents[2]) = << 0, 0 >>

\* the agent tables a CTF step can have handed to the flag update: the
\* survivors stand where the next state has them, the agents that died stood
\* one step of theirs away from where they were
CtfTables ==
    LET dead_agents == DOMAIN agents \ DOMAIN agents'
    IN { ags \in { [a \in DOMAIN agents |->
                       IF a \in dead_agents
                       THEN [agents[a] EXCEPT !.x = @ + steps[a]]
                       ELSE agents'[a]] : steps \in [dead_agents -> {-1, 0, 1}] } :
           \A a \in dead_agents : ags[a].x \in Line }

\* the manager as the agents' turns of update_flags find it
BeforeTurns(ags) ==
    LET dead_agents == DOMAIN agents \ DOMAIN agents'
        g == handle_deaths([game_manager EXCEPT !.time_elapsed = @ + sim_dt], ags, dead_agents)
        left == Del(ags, dead_agents)
    IN [g EXCEPT !.flag_team_a = FollowCarrier(@, left),
                 !.flag_team_b = FollowCarrier(@, left)]

\* the manager as the turn of agent id finds it
BeforeTurn(ags, id) ==
    FlagTurns(BeforeTurns(ags), ags, {j \in DOMAIN agents' : j < id})

\* at its turn the agent carries the enemy flag (picked up in the turn or
\* before), stands within the return radius of its base, and its own flag is
\* at base
MayCapture(g, id, a) ==
    LET enemy == g[EnemyFlagOf(a.team)]
        own_base_x == IF a.team = TEAM_A THEN CTF_FLAG_TEAM_A_BASE_X
                      ELSE CTF_FLAG_TEAM_B_BASE_X
    IN /\ \/ enemy.carrier_id = Some(id)
          \/ /\ enemy.state # CARRIED
             /\ Within(a.x, a.y, enemy.x, enemy.y, CTF_FLAG_PICKUP_RADIUS)
       /\ Within(a.x, a.y, own_base_x, 0, CTF_FLAG_RETURN_RADIUS)
       /\ g[OwnFlagOf(a.team)].state = AT_BASE

\* the turn of the agent changes the capture counts as the rule says
TurnByTheRule(g, id, a) ==
    LET after == FlagTurn(g, id, a)
        other == IF a.team = TEAM_A THEN TEAM_B ELSE TEAM_A
        enemy == EnemyFlagOf(a.team)
    IN /\ after[CapturesOf(other)] = g[CapturesOf(other)]
       /\ IF MayCapture(g, id, a)
          THEN /\ after[CapturesOf(a.team)] = g[CapturesOf(a.team)] + CTF_POINTS_PER_CAPTURE
               /\ after[enemy].state = AT_BASE
               /\ after[enemy].carrier_id = None
               /\ after[enemy].x = after[enemy].base_x
          ELSE after[CapturesOf(a.team)] = g[CapturesOf(a.team)]

\* the agents of the team whose turn captures
Capturers(ags, team) ==
    { id \in DOMAIN agents' :
        ags[id].team = team /\ MayCapture(BeforeTurn(ags, id), id, ags[id]) }

\* a carrier of the team waits within the return radius of its base, the own
\* flag is at base, and the carrier is still there after the tick
Waiting(team, c) ==
    LET own_base_x == IF team = TEAM_A THEN CTF_FLAG_TEAM_A_BASE_X
                      ELSE CTF_FLAG_TEAM_B_BASE_X
    IN /\ c \in DOMAIN agents /\ c \in DOMAIN agents'
       /\ agents[c].team = team
       /\ game_manager[EnemyFlagOf(team)].carrier_id = Some(c)
       /\ game_manager[OwnFlagOf(team)].state = AT_BASE
       /\ Within(agents[c].x, 0, own_base_x, 0, CTF_FLAG_RETURN_RADIUS)
       /\ Within(agents'[c].x, 0, own_base_x, 0, CTF_FLAG_RETURN_RADIUS)

\* an enemy whose turn comes before the carrier's takes the flag of the team
TakenFirst(team, c) ==
    \E b \in DOMAIN agents' :
       /\ b < c
       /\ agents'[b].team # team
       /\ Within(agents'[b].x, 0, game_manager[OwnFlagOf(team)].x, 0, CTF_FLAG_PICKUP_RADIUS)

\* C23 (as amended): in every tick of a CTF match every agent's turn in the
\* flag update captures exactly when the agent carries the enemy flag, is
\* within the return radius of its base and its own flag is at base; a
\* capture adds the points of a capture and leaves the captured flag at base
\* without carrier; a team's count changes in the tick by its captures and by
\* nothing else; and a carrier waiting in its base with its own flag at base
\* captures in the next tick unless an enemy whose turn comes first takes
\* that flag.
C23_CaptureRule ==
    [][ /\ \A ags \in CtfTables :
             /\ \A id \in DOMAIN agents' :
                   TurnByTheRule(BeforeTurn(ags, id), id, ags[id])
             /\ game_manager' = GameManagerCTFUpdate(game_manager, ags, DOMAIN agents \ DOMAIN agents', sim_dt)
                  => \A team \in {TEAM_A, TEAM_B} :
                        game_manager'[CapturesOf(team)] =
                           game_manager[CapturesOf(team)]
                           + CTF_POINTS_PER_CAPTURE * Cardinality(Capturers(ags, team))
        /\ \A team \in {TEAM_A, TEAM_B}, c \in DOMAIN agents :
             Waiting(team, c) /\ ~TakenFirst(team, c)
                => game_manager'[CapturesOf(team)] > game_manager[CapturesOf(team)]
      ]_vars

\* a team has captured while the other team's carrier holds its flag's rival
C23_Witness ==
    /\ game_manager.kind = "CTF"
    /\ game_manager.team_b_captures = CTF_POINTS_PER_CAPTURE
    /\ game_manager.flag_team_a.state = AT_BASE
    /\ game_manager.flag_team_b.state = CARRIED

\* C23 (as stated, last sentence): a carrier waiting in its base with its own
\* flag at base captures in the next tick.
C23_WaitingCarrierCaptures ==
    [][ \A team \in {TEAM_A, TEAM_B}, c \in DOMAIN agents :
           Waiting(team, c)
              => game_manager'[CapturesOf(team)] > game_manager[CapturesOf(team)]
      ]_vars

\* the team has held the zone in every tick of the match so far: the agents
\* hold their places, none of them has died, and the zone is the team's
HeldThroughout(team) ==
    /\ game_manager.kind = "KOTH"
    /\ game_manager.tick_count >= 1
    /\ ~game_manager.koth_state.game_over
    /\ Cardinality(DOMAIN agents) = MaxAgents
    /\ ZoneStatus(agents) = team

\* floor(n * dt / scoringInterval) for dt = 1 / SIMULATION_TICK_RATE
IntervalsIn(n) ==
    (n * (Unit \div KOTH_SCORING_INTERVAL)) \div SIMULATION_TICK_RATE

\* C24: with the zone held by one team throughout, after n ticks that team's
\* score is (pointsPerSecond x scoringInterval) x floor(n * dt / scoringInterval)
\* and the other team's score is 0.
C24_ScoreByIntervals ==
    /\ HeldThroughout(ZONE_TEAM_A) =>
         /\ game_manager.koth_state.team_a_score = Quantum * IntervalsIn(game_manager.tick_count)
         /\ game_manager.koth_state.team_b_score = 0
    /\ HeldThroughout(ZONE_TEAM_B) =>
         /\ game_manager.koth_state.team_b_score = Quantum * IntervalsIn(game_manager.tick_count)
         /\ game_manager.koth_state.team_a_score = 0

\* the winner the rule names for the scores and the time of a match, None
\* while the match goes on
WinnerByRule(s) ==
    IF s.team_a_score >= KOTH_MAX_POINTS THEN Some(TEAM_A)
    ELSE IF s.team_b_score >= KOTH_MAX_POINTS THEN Some(TEAM_B)
    ELSE IF s.time_elapsed < KOTH_MAX_DURATION THEN None
    ELSE IF s.team_a_score > s.team_b_score THEN Some(TEAM_A)
    ELSE IF s.team_b_score > s.team_a_score THEN Some(TEAM_B)
    ELSE Some(NEUTRAL)

\* C25: a KOTH match ends in the first tick in which a score is at least
\* maxPoints, that team winning, else in the first tick in which timeElapsed is
\* at least maxDuration, the strictly higher score winning and NEUTRAL on equal
\* scores; the tick that ends it sets gameOver and clears isRunning, and no
\* later tick changes the winner.
C25_KothEnd ==
    [][ LET s == game_manager.koth_state
            t == game_manager'.koth_state
        IN IF s.game_over
           THEN t = s /\ game_manager'.is_running = game_manager.is_running
           ELSE IF WinnerByRule(t) = None
           THEN /\ ~t.game_over
                /\ t.winner_team = s.winner_team
                /\ game_manager'.is_running = game_manager.is_running
           ELSE /\ t.game_over
                /\ t.winner_team = WinnerByRule(t)[1]
                /\ ~game_manager'.is_running
      ]_vars

\* a match decided by the time limit for the higher score, and ticked again
\* since
C25_Witness ==
    /\ game_manager.kind = "KOTH"
    /\ game_manager.koth_state.game_over
    /\ game_manager.koth_state.winner_team = TEAM_B
    /\ game_manager.koth_state.team_b_score = Quantum
    /\ game_manager.koth_state.time_elapsed >= KOTH_MAX_DURATION
    /\ ~game_manager.is_running
    /\ game_manager.tick_count = KothTicks

\* the ray of agent id at the angle reaches the circle of agent b within the
\* FOV radius before it reaches a wall cell
RECURSIVE RayReaches(_, _, _, _, _)
RayReaches(id, b, angle, x, traveled) ==
    /\ traveled < FOV_RATIO * agents[id].radius
    /\ LET p == << x[1] + RayVector(angle)[1] * step_size,
                   x[2] + RayVector(angle)[2] * step_size >>
       IN /\ ~has_wall_at_pos(walls_state, p[1], p[2])
          /\ \/ (p[1] - agents[b].x) * (p[1] - agents[b].x)
                  + (p[2] - agents[b].y) * (p[2] - agents[b].y)
                < agents[b].radius * agents[b].radius
             \/ RayReaches(id, b, angle, p, traveled + step_size)

\* the opposing agents that some ray of the cone of agent id reaches
Reached(id, gun_angle) ==
    { b \in DOMAIN agents \ {id} :
        /\ agents[b].team # agents[id].team
        /\ \E angle \in RayAngles(gun_angle) :
              RayReaches(id, b, angle, << agents[id].x, agents[id].y >>, 0) }

\* C26: after a detection pass of an agent its detected enemies are the
\* opposing agents that some ray of its cone reaches within the FOV radius
\* before a wall cell, whatever other agents lie on the ray.
C26_AgentsDoNotBlockRays ==
    [][ \A id \in DOMAIN agents, gun_angle \in 0..7 :
           Detect(id, gun_angle) => agents'[id].detected_enemies = Reached(id, gun_angle)
      ]_vars

\* C27: when the server and a peer hold the same walls and the server then
\* makes tracked addWall/removeWall calls from an empty change buffer, the
\* packet of the buffer applied to the peer leaves the peer with the server's
\* cells.
C27_PeerCatchesUp ==
    [][ Sync => peer_walls'.cells = walls_state.cells ]_vars

\* the peer has applied a packet that adds a cell and removes it again, and
\* holds the server's cells
C27_Witness ==
    /\ unpacked # None
    /\ unpacked[1] # "ValueError"
    /\ unpacked[1][1] \cap unpacked[1][2] # {}
    /\ unpacked[1][1] \ unpacked[1][2] # {}
    /\ peer_walls.cells = walls_state.cells

\* C28: the pair (added, removed) that applying the packet returns is the net
\* effect of the server's changes: added = S1 \ S and removed = S \ S1 for the
\* cells S of the peer before and S1 of the server.
C28_NetEffectReported ==
    [][ Sync => unpacked' = Some(<< walls_state.cells \ peer_walls.cells,
                                    peer_walls.cells \ walls_state.cells >>) ]_vars

\* C29: every cell of a wall set lies in the grid, an addWall with coordinates
\* outside the grid changes neither the cells nor the change buffer, and
\* applying a packet appends nothing to the change buffer of the peer.
C29_CellsInBounds ==
    /\ [](\A c \in walls_state.cells \cup peer_walls.cells : is_valid_cell(c[1], c[2]))
    /\ [][ /\ \A c \in WallArgs, track_change \in BOOLEAN :
                ~is_valid_cell(c[1], c[2]) /\ AddWall(c[1], c[2], track_change)
                   => walls_state' = walls_state
           /\ Sync => peer_walls'.change_buffer = peer_walls.change_buffer
         ]_vars

\* the server holds walls loaded, added or kept by its mutators, and the peer
\* holds walls that a packet brought
C29_Witness ==
    /\ Cardinality(walls_state.cells) >= 2
    /\ walls_state.change_buffer # << >>
    /\ unpacked # None
    /\ peer_walls.cells # {}
    /\ agents = << >>

\* the ids of the bullets fired in the step, taken from the id counter
FiredIds ==
    IF next_id' >= next_id THEN next_id..(next_id' - 1)
    ELSE (next_id..MAX_BULLET_ID) \cup (0..(next_id' - 1))

\* C30: a bullet that overlaps a wall cell where it is spawned is still in the
\* bullet table at the end of the tick in which it was fired (the wall step of
\* the next tick removes it): in a tick in which no agent is hit, every bullet
\* fired is in the table afterwards.
C30_WallBulletOutlivesItsTick ==
    [][ (\A a \in DOMAIN agents : Loss(a) = 0) => FiredIds \subseteq DOMAIN bullets' ]_vars

\* the agents of another team than bullet b's that b lies over, in the world w
\* the agents' updates left
Foes(w, overlap, b) ==
    { a \in DOMAIN w.agents : w.agents[a].team # w.bullets[b].team /\ a \in overlap[b] }

\* the health of agent a in the table ags, 0 when it is not in it
HealthIn(ags, a) == IF a \in DOMAIN ags THEN ags[a].health ELSE 0

\* the world after resolves the collisions of the world w as the rule has it:
\* a bullet that lies over an agent of another team is gone from the table,
\* and every agent has lost the damage of each such bullet that lies over it,
\* once
ResolvedByRule(w, overlap, after) ==
    /\ \A b \in DOMAIN w.bullets :
           Foes(w, overlap, b) # {} => b \notin DOMAIN after.bullets
    /\ \A a \in DOMAIN w.agents :
           LET hits == Cardinality({ b \in DOMAIN w.bullets : a \in Foes(w, overlap, b) })
           IN hits > 0 =>
                  HealthIn(after.agents, a)
                      = Max(0, w.agents[a].health - hits * DEFAULT_AGENT_DAMAGE)

\* C31: in a tick in which a bullet overlaps an agent of another team, that
\* agent takes the bullet's damage whether or not the bullet also overlaps a
\* wall cell (agent hits are resolved before wall hits); every such agent
\* takes the damage once; and the bullet is out of the table at the end of
\* the tick, so that it damages agents in one tick at most.  Stated of every
\* update the manager can make from a state, whatever the strategies call and
\* whatever the bullets lie over.
C31_AgentHitsBeforeWallHits ==
    (~raised /\ game_manager.is_running) =>
    \A calls \in [DOMAIN agents -> MatchOutcomes \ {"raise"}] :
        LET r == update_agents([World EXCEPT !.bullets = update_bullets(bullets, sim_dt)],
                               DOMAIN agents, sim_dt, calls)
        IN \A visible \in {{}, DOMAIN agents},
              overlap \in [DOMAIN r.w.bullets -> Overlaps(agents)],
              destroyed \in {{}, DOMAIN r.w.bullets} :
             ResolvedByRule(r.w, overlap,
                            AfterAgents(game_manager, r, [a \in DOMAIN agents |-> visible],
                                        overlap, destroyed).w)

\* the two bullets fired so far are gone from the table and one agent was
\* purged, another one hurt: both bullets met agents in the tick they left
\* the table
C31_Witness ==
    /\ next_id = 2
    /\ bullets = << >>
    /\ Cardinality(DOMAIN agents) = MaxAgents - 1
    /\ \E a \in DOMAIN agents : agents[a].health = LowHealth
    /\ ~raised

\* the circles of agents a and b of the table ags overlap
Touching(ags, a, b) ==
    circles_overlap(ags[a].x, ags[a].y, ags[a].radius, ags[b].x, ags[b].y, ags[b].radius)

\* no two agents of the table overlap
Apart(ags) == \A a \in DOMAIN ags, b \in DOMAIN ags : a # b => ~Touching(ags, a, b)

\* agent id standing on position p would overlap agent o of the table ags
Meets(ags, id, p, o) ==
    circles_overlap(p[1], p[2], ags[id].radius, ags[o].x, ags[o].y, ags[o].radius)

\* blocked == (AGENT, o)
BlockedBy(o) == Some([collision_type |-> "AGENT", obstacle_id |-> Some(o)])

\* the table after is what the turns make of the table ags when agents lo and
\* hi, lo first, both step: lo commits its move exactly when its target is free
\* of walls and of hi where hi stands, and is blocked otherwise; hi, its target
\* free of walls and overlapping lo where lo's turn left it, stays where it
\* is, blocked by lo
TurnsByTheRule(ags, steps, lo, hi, after) ==
    LET tlo == MoveTarget(ags[lo], sim_dt, steps[lo])
        thi == MoveTarget(ags[hi], sim_dt, steps[hi])
        free == ~WallInBounds(tlo, ags[lo].radius) /\ ~Meets(ags, lo, tlo, hi)
    IN /\ free => PositionOf(after[lo]) = tlo /\ after[lo].blocked = None
       /\ ~free => PositionOf(after[lo]) = PositionOf(ags[lo]) /\ after[lo].blocked # None
       /\ (~WallInBounds(thi, ags[hi].radius) /\ Meets(after, hi, thi, lo)) =>
              /\ PositionOf(after[hi]) = PositionOf(ags[hi])
              /\ after[hi].blocked = BlockedBy(lo)

\* C32: the agents take their steps one at a time in the order of their ids,
\* each move checked against the positions the other agents have at that
\* moment.  No tick makes two circles overlap; and when two agents both step,
\* the one with the lower id commits its move if its target is free of walls
\* and of the other agent's present position (and is blocked if not), and the
\* one with the higher id stays in place with blocked == (AGENT, lowerId) if
\* its wall-free target overlaps the position the lower one has then.
C32_StepsInIdOrder ==
    /\ Apart(agents)
    /\ \A steps \in TickSteps :
         LET after == move_agents(agents, walls_state, DOMAIN agents, sim_dt, steps)
         IN /\ Apart(after)
            /\ \A lo \in DOMAIN agents, hi \in DOMAIN agents :
                 (lo < hi /\ steps[lo] # "stay" /\ steps[hi] # "stay") =>
                     TurnsByTheRule(agents, steps, lo, hi, after)

\* the agent with the higher id stands blocked by the other one, which has
\* moved next to it in the same tick and is not blocked
C32_Witness ==
    /\ agents[2].blocked = BlockedBy(1)
    /\ agents[1].blocked = None
    /\ PositionOf(agents[1]) = << 1, 2 >>
    /\ PositionOf(agents[2]) = << 3, 2 >>
    /\ walls_state.cells = {}

\* C32 as stated: whenever two agents step into each other in a tick (the
\* circles on their targets overlap), the agent with the lower id commits its
\* move.
C32_LowerIdCommits ==
    \A steps \in TickSteps :
        LET after == move_agents(agents, walls_state, DOMAIN agents, sim_dt, steps)
        IN \A lo \in DOMAIN agents, hi \in DOMAIN agents :
             LET tlo == MoveTarget(agents[lo], sim_dt, steps[lo])
                 thi == MoveTarget(agents[hi], sim_dt, steps[hi])
             IN ( /\ lo < hi /\ steps[lo] # "stay" /\ steps[hi] # "stay"
                  /\ ~WallInBounds(tlo, agents[lo].radius)
                  /\ circles_overlap(tlo[1], tlo[2], agents[lo].radius,
                                     thi[1], thi[2], agents[hi].radius) )
                => PositionOf(after[lo]) = tlo

\* the weapon of agent a: its two timers and its ammo
Weapon(a) == << a.shoot_timer, a.reload_timer, a.current_ammo >>

\* agent id as its strategy finds it in a tick of length dt
AsFound(id, dt) == update_tick_before_strategy(World, id, dt).agents[id]

\* C33: load_bullet called while a shot is pending (shoot_timer >= 0) or while
\* a reload is active leaves shoot_timer, reload_timer and current_ammo as
\* they are, in every state a strategy can find its agent in.  So a strategy
\* that calls load_bullet in every tick does not postpone the pending shot: a
\* tick with the call leaves the same bullets and, while the shot stays
\* pending, the same weapon as a tick without it; and with ammo available the
\* tick in which the countdown runs out adds one bullet and the call in that
\* tick starts the next countdown.
C33_LoadBulletKeepsPendingShot ==
    \A id \in DOMAIN agents, dt \in Dts :
        LET found == AsFound(id, dt)
            idle == update_strategy(World, id, dt, "none")
            loaded == update_strategy(World, id, dt, "load_bullet")
            a == agents[id]
        IN /\ (found.shoot_timer >= 0 \/ found.reload_timer # None) =>
                  Weapon(load_bullet(found)) = Weapon(found)
           /\ (a.shoot_timer >= 0 \/ a.reload_timer # None) =>
                  Weapon(load_bullet(a)) = Weapon(a)
           /\ a.shoot_timer >= 0 =>
                  /\ loaded.bullets = idle.bullets
                  /\ idle.agents[id].shoot_timer >= 0 => loaded.agents[id] = idle.agents[id]
                  /\ ( /\ a.shoot_timer - dt <= 0
                       /\ (a.current_ammo = AMMO_INFINITE \/ a.current_ammo > 0) ) =>
                         /\ DOMAIN loaded.bullets = DOMAIN bullets \cup {next_id}
                         /\ loaded.bullets[next_id].owner_id = id
                         /\ loaded.agents[id].reload_timer = None =>
                                loaded.agents[id].shoot_timer = DEFAULT_SHOOT_DURATION

\* an agent with bullets left in its magazine has fired twice and has its
\* third shot pending, a tick into the countdown
C33_Witness ==
    \E id \in DOMAIN agents :
        /\ agents[id].current_ammo \in 1..DEFAULT_MAGAZINE_SIZE
        /\ agents[id].reload_timer = None
        /\ agents[id].shoot_timer = DEFAULT_SHOOT_DURATION - sim_dt
        /\ next_id = 2

\* agent id of the table ags, alive after the tick, stands within the pickup
\* radius of its own team's flag, which the flag update finds DROPPED
OnOwnDroppedFlag(ags, id) ==
    LET own == BeforeTurns(ags)[OwnFlagOf(ags[id].team)]
    IN /\ own.state = DROPPED
       /\ Within(ags[id].x, ags[id].y, own.x, own.y, CTF_FLAG_PICKUP_RADIUS)

\* C34: in every flag update, an alive agent standing within the pickup radius
\* of its own team's DROPPED flag has that flag reset to base in that update,
\* whether or not the agent carries the enemy flag: the flag is not DROPPED
\* when the update is over.
C34_OwnFlagReturned ==
    [][ ~game_manager.game_over =>
          \A ags \in CtfTables :
             game_manager' = GameManagerCTFUpdate(game_manager, ags,
                                                  DOMAIN agents \ DOMAIN agents', sim_dt)
                => \A id \in DOMAIN agents' :
                      OnOwnDroppedFlag(ags, id)
                         => game_manager'[OwnFlagOf(ags[id].team)].state # DROPPED
      ]_vars

\* the two flags of a manager
FlagNames == {"flag_team_a", "flag_team_b"}

\* the flag is DROPPED at (x, y) with no carrier and a drop timer of 0
DroppedAt(flag, x, y) ==
    /\ flag.state = DROPPED
    /\ flag.carrier_id = None
    /\ flag.x = x /\ flag.y = y
    /\ flag.drop_timer = 0

\* no flag of the manager is carried by an agent that is not in the table
CarriersInTable(gm, ags) ==
    \A f \in FlagNames :
        gm[f].state = CARRIED => gm[f].carrier_id # None /\ gm[f].carrier_id[1] \in DOMAIN ags

\* C35: in the tick in which a flag carrier dies, its flag is DROPPED at the
\* position where the carrier died, with no carrier and a drop timer of 0,
\* when the death handling is over and before the agents' turns of the flag
\* update; the carrier-tracking step of the flag update alone would drop it,
\* in the same way, where the flag was; and at the end of no tick is a flag
\* CARRIED by an agent that is not in the agent table.  Stated of every update
\* the manager can make from a state.
C35_DeadCarrierDropsFlag ==
    /\ game_manager.kind = "CTF" => CarriersInTable(game_manager, agents)
    /\ (game_manager.kind = "CTF" /\ game_manager.is_running) =>
       \A steps \in [DOMAIN agents -> {-1, 0, 1}], dead_agents \in Casualties(agents) :
          LET ags == [a \in DOMAIN agents |->
                         [agents[a] EXCEPT !.x = @ + steps[a] * agents[a].speed * sim_dt]]
              left == Del(ags, dead_agents)
              timed == [game_manager EXCEPT !.time_elapsed = @ + sim_dt]
              handled == handle_deaths(timed, ags, dead_agents)
              tracked == [handled EXCEPT !.flag_team_a = FollowCarrier(@, left),
                                         !.flag_team_b = FollowCarrier(@, left)]
          IN (\A a \in DOMAIN ags : ags[a].x \in Line) =>
              /\ \A f \in FlagNames, a \in dead_agents :
                    (game_manager[f].state = CARRIED /\ game_manager[f].carrier_id = Some(a)) =>
                        /\ DroppedAt(handled[f], ags[a].x, ags[a].y)
                        /\ DroppedAt(tracked[f], ags[a].x, ags[a].y)
                        /\ DroppedAt(FollowCarrier(game_manager[f], left),
                                     game_manager[f].x, game_manager[f].y)
              /\ CarriersInTable(
                     GameManagerCTFUpdate(game_manager, ags, dead_agents, sim_dt), left)

\* a flag lies where its carrier died in the tick just over, a step away from
\* where the carrier took it, and the carrier is out of the table
C35_Witness ==
    /\ game_manager.kind = "CTF"
    /\ DOMAIN agents = {1, 3}
    /\ game_manager.flag_team_b.state = DROPPED
    /\ game_manager.flag_team_b.drop_timer = sim_dt
    /\ game_manager.flag_team_b.x = CTF_FLAG_TEAM_B_BASE_X - 1
    /\ game_manager.tick_count = 2

\* C36: whenever START_GAME is broadcast, the mode the installed game manager
\* was constructed for (game_mode) is the mode every connected session has
\* selected.
C36_StartedModeIsSelectedMode ==
    (\E s \in Sessions : sent[s] = Some([type |-> "START_GAME"])) =>
        \A i \in 1..Len(clients) : clients[i].mode = game_mode

\* a match is running: the tick driver is inside its loop, suspended in the
\* sleep or in a broadcast, and the manager it ticks is running
MatchRunning ==
    /\ game_task # NoTask
    /\ tasks[game_task].pc \in {"sleep", "bcast_entities", "bcast_bullets", "bcast_koth"}
    /\ game_manager.is_running

\* C37: a SELECT_MODE message received while a match is running leaves the
\* running match alone: the game manager that is ticked and broadcast is not
\* replaced and its is_running flag is not changed.
C37_SelectModeLeavesMatchAlone ==
    [][ \A s \in Sessions :
           (MatchRunning /\ Selects(s)) => game_manager' = game_manager ]_vars

\* the flag is well-formed in the agent table ags
WellFormed(flag, ags) ==
    /\ flag.state = CARRIED <=> flag.carrier_id # None
    /\ flag.state = CARRIED =>
          LET c == flag.carrier_id[1]
          IN /\ c \in DOMAIN ags
             /\ is_alive(ags[c])
             /\ ags[c].team # flag.team
             /\ flag.x = ags[c].x /\ flag.y = ags[c].y
    /\ flag.state = AT_BASE =>
          /\ flag.x = flag.base_x /\ flag.y = flag.base_y
          /\ flag.drop_timer = 0

\* C38: at the end of every CTF tick each flag is well-formed: it is CARRIED
\* exactly when it has a carrier; a CARRIED flag's carrier is an alive agent of
\* the table, of another team than the flag's, and the flag is where the
\* carrier is; a flag AT_BASE is at its base position with a drop timer of 0;
\* and no agent carries both flags.
C38_FlagsWellFormed ==
    game_manager.kind = "CTF" =>
        /\ WellFormed(game_manager.flag_team_a, agents)
        /\ WellFormed(game_manager.flag_team_b, agents)
        /\ game_manager.flag_team_a.carrier_id # None =>
               game_manager.flag_team_a.carrier_id # game_manager.flag_team_b.carrier_id

\* after some ticks both flags are carried, away from their bases and from
\* where they were picked up
C38_Witness ==
    /\ game_manager.kind = "CTF"
    /\ ~game_manager.game_over
    /\ game_manager.flag_team_a.state = CARRIED
    /\ game_manager.flag_team_b.state = CARRIED
    /\ game_manager.flag_team_a.x = CTF_FLAG_TEAM_A_BASE_X + 2
    /\ game_manager.flag_team_b.x = CTF_FLAG_TEAM_B_BASE_X - 2

\* ceil(maxDuration / dt) for dt one SIMULATION_TICK_RATE-th of a second: of
\* the KOTH match, whose duration is in half seconds, and of the CTF match,
\* whose times are counted in ticks
KothLimitTick == (KothHalfSeconds * SIMULATION_TICK_RATE + 1) \div 2
CtfLimitTick == (CTF_MAX_DURATION + sim_dt - 1) \div sim_dt

\* the match is over: game_over is set and is_running is cleared
MatchOver ==
    /\ ~game_manager.is_running
    /\ IF game_manager.kind = "KOTH" THEN game_manager.koth_state.game_over
       ELSE game_manager.game_over

\* C39 (as amended): every KOTH match and every CTF match with a time limit
\* ends, whatever its agents do: game_over is set and is_running cleared no
\* later than tick ceil(maxDuration / dt) of a CTF match and no later than
\* one tick after it of a KOTH match, whose time_elapsed, a float sum of the
\* tick lengths, is still below maxDuration at that tick.
C39_MatchesEnd ==
    /\ (game_manager.kind = "KOTH" /\ game_manager.tick_count >= KothLimitTick + 1)
          => MatchOver
    /\ (game_manager.kind = "CTF" /\ game_manager.tick_count >= CtfLimitTick)
          => MatchOver

\* a KOTH match that no team ever scored in, ended as a draw by the time
\* limit in its last tick
C39_Witness ==
    /\ game_manager.kind = "KOTH"
    /\ game_manager.tick_count = KothLimitTick + 1
    /\ MatchOver
    /\ game_manager.koth_state.winner_team = NEUTRAL
    /\ game_manager.koth_state.team_a_score = 0
    /\ game_manager.koth_state.team_b_score = 0
    /\ DOMAIN agents = {}

\* C39 (as stated): every match is over no later than tick
\* ceil(maxDuration / dt).
C39_EndsByLimitTick ==
    /\ (game_manager.kind = "KOTH" /\ game_manager.tick_count >= KothLimitTick)
          => MatchOver
    /\ (game_manager.kind = "CTF" /\ game_manager.tick_count >= CtfLimitTick)
          => MatchOver

\* C40: a packet that unpack_changes rejects leaves the peer's wall cells as
\* they were before the call, wherever in the packet the bad record sits
\* a call that raised: its outcome is the error's name, not the pair of cell sets
Rejected(result) == result # None /\ Len(result[1]) = Len("ValueError")

C40_RejectedPacketChangesNothing ==
    [][ Rejected(unpacked') => peer_walls'.cells = peer_walls.cells ]_vars

====
